---- MODULE Spec2Model ----
(***************************************************************************)
(* Model of the orchestration core of MailingListLab (src/server_v2.py):   *)
(* the poll thread (check_mails_loop / check_mails), the newsletter timer  *)
(* (find_and_start_newsletter_timer), the digest job and its completion    *)
(* waiter (create_news_letter_threaded), the repost jobs, and the part of  *)
(* the mailbox gateway they use (GmailHelper.list_emails,                  *)
(* update_email_state, archive_email).                                     *)
(*                                                                         *)
(* Two specifications live here.  Spec is the controller: threads          *)
(* interleave at the points where they touch shared state.  FireSpec       *)
(* applies the next-fire computation of find_and_start_newsletter_timer    *)
(* to every clock reading and schedule rule of the bounded domain.         *)
(***************************************************************************)
EXTENDS Integers, Sequences, FiniteSets, Bags, TLC

VARIABLES
    cfg,            \* the module globals active, days, release_time_str, ...
    file,           \* the content of configs/setup.json
    handle,         \* the Timer object newsletter_timer_thread refers to
    orphans,        \* pending Timer objects no variable refers to any more
    jobs,           \* the bag of digest job threads (each with its waiter)
    reposts,        \* running create_repost_email threads, per message
    faults,         \* mailbox API calls that have failed so far
    mailbox,        \* the messages of the remote mailbox, oldest first
    userLabels,     \* the user labels that exist in the mailbox account
    pollPc,         \* where the poll thread is inside check_mails
    msgs,           \* check_mails' local listing still to be processed
    now,            \* FireSpec: the clock reading datetime.now()
    rule,           \* FireSpec: the days and release_time_str in force
    target_datetime,\* FireSpec: the computed target, Uncomputed before
    news_items,     \* TopSpec: the "news" list of the classification response
    N,              \* TopSpec: the cap given to extract_top_N
    news_list,      \* TopSpec: what extract_top_N returned, Unselected before
    top_5_articles, \* TopSpec: the top 5 of analyze_emails_newsletter
    run,            \* RunSpec: one run of a digest or repost job, step by step
    to_apply,       \* TornSpec: the payload check_mails is applying, key by key
    seen,           \* TornSpec: what a thread reading the globals has read
    setup_json,     \* PersistSpec: the text of configs/setup.json on disk
    writer,         \* PersistSpec: the process writing and reading that file
    labelling,      \* JobSpec: the candidates of a job and their ANALYZED tagging
    gen,            \* GenSpec: one call of GeminiHandler._generate
    requests_timestamps, \* LimitSpec: the deque of the shared GeminiHandler
    limiter,        \* LimitSpec: the clock and the threads in _check_rate_limit
    scrape          \* ScrapeSpec: the two passes of analyze_emails_newsletter

ctlVars == <<cfg, file, handle, orphans, jobs, reposts, faults, mailbox, userLabels, pollPc, msgs>>
fireVars == <<now, rule, target_datetime>>
topVars == <<news_items, N, news_list, top_5_articles>>
runVars == <<run, to_apply, seen>>
persistVars == <<setup_json, writer>>
genVars == <<gen>>
limitVars == <<requests_timestamps, limiter>>
scrapeVars == <<scrape>>
unitVars == <<persistVars, labelling, genVars, limitVars, scrapeVars>>
vars == <<cfg, file, handle, orphans, jobs, reposts, faults, mailbox, userLabels, pollPc, msgs,
          now, rule, target_datetime, news_items, N, news_list, top_5_articles, run,
          to_apply, seen, setup_json, writer, labelling, gen,
          requests_timestamps, limiter, scrape>>

----------------------------------------------------------------------------
(* Bounds of the model *)

\* messages that arrive in the mailbox during one run
MaxMsgs == 1
\* mailbox API calls (list, modify) that fail during one run
MaxFaults == 1
\* resolution of the time of day: instants per day the clock can show
SlotsPerDay == 3

----------------------------------------------------------------------------
(* Strings.  A sender header is a sequence of tokens; "<", ">" and " " are  *)
(* the characters extract_email_address looks at, every other token is a   *)
(* run of other characters.                                                *)

Min(S) == CHOOSE x \in S : \A y \in S : x <= y

RECURSIVE lstrip(_)
lstrip(s) == IF s # <<>> /\ Head(s) = " " THEN lstrip(Tail(s)) ELSE s

RECURSIVE rstrip(_)
rstrip(s) == IF s # <<>> /\ s[Len(s)] = " " THEN rstrip(SubSeq(s, 1, Len(s) - 1)) ELSE s

strip(s) == rstrip(lstrip(s))

Chars(s) == {s[i] : i \in 1..Len(s)}

\* re.search(r'<([^>]+)>', s): the leftmost "<" that is followed by one or
\* more characters other than ">" and then a ">"; <<i, j>> are the positions
\* of the two brackets, <<0, 0>> when nothing matches.
BracketMatch(s) ==
    LET starts == {i \in 1..Len(s) :
                     /\ s[i] = "<"
                     /\ \E j \in (i + 2)..Len(s) :
                          /\ s[j] = ">"
                          /\ \A k \in (i + 1)..(j - 1) : s[k] # ">"}
    IN IF starts = {} THEN <<0, 0>>
       ELSE LET i == Min(starts)
                j == Min({j \in (i + 2)..Len(s) : s[j] = ">"})
            IN <<i, j>>

extract_email_address(sender_string) ==
    IF sender_string = <<>> THEN <<>>
    ELSE LET m == BracketMatch(sender_string)
         IN IF "<" \in Chars(sender_string) /\ ">" \in Chars(sender_string) /\ m # <<0, 0>>
            THEN strip(SubSeq(sender_string, m[1] + 1, m[2] - 1))
            ELSE strip(sender_string)

\* str.lower() on the subjects that occur
lower(title) ==
    CASE title = "Config" -> "config"
      [] title = "CONFIG" -> "config"
      [] title = "Hello"  -> "hello"
      [] OTHER -> title

----------------------------------------------------------------------------
(* The next-fire computation of find_and_start_newsletter_timer.           *)
(* A datetime is [day, tod]: day counts days (day 0 is a Monday), tod is   *)
(* the time of day in 0..SlotsPerDay-1.  release_time_str is the empty     *)
(* string <<>> or a one-field string <<t>> that strptime parses to t.      *)

weekdays == <<"Monday", "Tuesday", "Wednesday", "Thursday", "Friday", "Saturday", "Sunday">>

WeekdayNames == {weekdays[i] : i \in 1..7}

TimesOfDay == 0..(SlotsPerDay - 1)

\* what find_and_start_newsletter_timer has when it returns at line 352
NoTarget == [day |-> -1, tod |-> -1]

\* target_datetime before the computation has run
Uncomputed == [day |-> -2, tod |-> -2]

\* datetime.strptime(release_time_str, "%H:%M:%S").time()
strptime(release_time_str) == release_time_str[1]

\* now.weekday(): Monday is 0
weekday(dt) == dt.day % 7

\* now.strftime("%A")
strftime_A(dt) == weekdays[weekday(dt) + 1]

\* the instants of the clock, in order
Instant(dt) == dt.day * SlotsPerDay + dt.tod

TargetTodayLate(dt, ds, release_time_str) ==
    LET target_time == strptime(release_time_str)
        offsets == {offset \in 1..7 : weekdays[((weekday(dt) + offset) % 7) + 1] \in ds}
    IN IF strftime_A(dt) \in ds /\ dt.tod <= target_time
       THEN [day |-> dt.day, tod |-> target_time]
       ELSE IF offsets = {} THEN NoTarget
            ELSE [day |-> dt.day + Min(offsets), tod |-> target_time]

TargetSkipToday(dt, ds, release_time_str) ==
    LET target_time == strptime(release_time_str)
        offsets == {offset \in 1..7 : weekdays[((weekday(dt) + offset) % 7) + 1] \in ds}
    IN IF offsets = {} THEN NoTarget
       ELSE [day |-> dt.day + Min(offsets), tod |-> target_time]

\* lines 328-356: the target of the timer, NoTarget when days names no weekday
Target(dt, ds, release_time_str) ==
    LET target_time == strptime(release_time_str)
        offsets == {offset \in 1..7 : weekdays[((weekday(dt) + offset) % 7) + 1] \in ds}
    IN IF strftime_A(dt) \in ds /\ dt.tod < target_time
       THEN [day |-> dt.day, tod |-> target_time]
       ELSE IF offsets = {} THEN NoTarget
            ELSE [day |-> dt.day + Min(offsets), tod |-> target_time]

\* lines 318-324: the early returns of find_and_start_newsletter_timer
Schedulable(c) == c.active /\ c.release_time_str # <<>> /\ c.days # {}

\* news_list and top_5_articles before the selection has run
Unselected == <<[ID |-> 0, source |-> "", relevancy |-> 0]>>

\* run when no run is followed
NoRun == [pc |-> "none"]

\* to_apply and seen when no application of a payload is followed
NoPayload == [keys |-> <<>>]
NoReader == [pc |-> "none"]

\* writer when no write of configs/setup.json is followed
NoWriter == [pc |-> "none"]

\* the variables of the unit specifications, out of use
\* labelling when no job is followed through its tagging
NoLabelling == [todo |-> <<>>]

\* gen when no call of _generate is followed
NoGenerate == [pc |-> "none"]

\* limiter when no thread is in _check_rate_limit
NoLimiter == [clock |-> 0]

\* scrape when no analysis is followed through its passes
NoScrape == [pc |-> "none"]

PersistIdle == setup_json = <<>> /\ writer = NoWriter

GenIdle == gen = NoGenerate

LimitIdle == requests_timestamps = <<>> /\ limiter = NoLimiter

ScrapeIdle == scrape = NoScrape

UnitsIdle ==
    /\ PersistIdle
    /\ labelling = NoLabelling
    /\ GenIdle
    /\ LimitIdle
    /\ ScrapeIdle

----------------------------------------------------------------------------
(* The configuration: the globals of server_v2.py and configs/setup.json.  *)

JaneAddr == <<"jane@x.com">>
EveAddr == <<"eve@x.com">>

\* setup.json as load_setup reads it at start: a complete schedule, or the
\* default file of check_directories (no days, no release time)
StartupConfigs ==
    { [active |-> TRUE, days |-> ds, release_time_str |-> rts,
       seconds_between_checks |-> 10, whitelisted_senders |-> {JaneAddr},
       newsletter_email |-> "list@x.com", limit_newest |-> 10] :
         <<ds, rts>> \in { <<{"Monday"}, <<1>> >>, <<{}, <<>> >> } }

\* the globals that make the config, the keys of setup.json
ConfigKeys == {"active", "days", "release_time_str", "seconds_between_checks",
               "whitelisted_senders", "newsletter_email", "limit_newest"}

\* the second arguments of setup.get in load_setup (lines 64-70)
Defaults ==
    [active |-> TRUE, days |-> {}, release_time_str |-> <<>>,
     seconds_between_checks |-> 10, whitelisted_senders |-> {},
     newsletter_email |-> "", limit_newest |-> 10]

\* line 44: the keys of the file check_directories writes
DefaultFileKeys == {"active", "days", "release_time_str", "seconds_between_checks"}

\* lines 60-75: every global is read from the file, a key the file does not
\* have gives the default
load_setup(setup) ==
    [key \in ConfigKeys |-> IF key \in DOMAIN setup THEN setup[key] ELSE Defaults[key]]

json_dump_default_keys(c) == [key \in DefaultFileKeys |-> c[key]]

\* line 281: the dict json.dump writes to configs/setup.json
json_dump(c) == [key \in ConfigKeys |-> c[key]]

new_config_known_keys_only(c, new_modifications) ==
    IF DOMAIN new_modifications \subseteq ConfigKeys \cup {"send_now"}
    THEN [key \in DOMAIN c |->
            IF key \in DOMAIN new_modifications THEN new_modifications[key] ELSE c[key]]
    ELSE [key \in DOMAIN c |-> Defaults[key]]

\* lines 258-274: the recognised keys replace their global, every other key
\* (send_now included) leaves the globals alone
new_config(c, new_modifications) ==
    [key \in DOMAIN c |->
        IF key \in DOMAIN new_modifications THEN new_modifications[key] ELSE c[key]]

\* lines 255, 273-274
should_send_now(new_modifications) ==
    IF "send_now" \in DOMAIN new_modifications THEN new_modifications["send_now"] ELSE FALSE

\* the messages that can arrive: sender header, subject, body
MessageKinds ==
    { [sender |-> <<"Jane Doe", " ", "<", "jane@x.com", ">">>, title |-> "Config",
       text |-> [days |-> {"Tuesday"}, release_time_str |-> <<2>>]],
      [sender |-> <<"jane@x.com">>, title |-> "config",
       text |-> [active |-> FALSE]],
      [sender |-> <<"Jane Doe", " ", "<", "jane@x.com", ">">>, title |-> "CONFIG",
       text |-> [send_now |-> TRUE]],
      [sender |-> <<"jane@x.com">>, title |-> "Hello",
       text |-> [body |-> "news"]],
      [sender |-> <<"Eve", " ", "<", "eve@x.com", ">">>, title |-> "config",
       text |-> [active |-> FALSE, send_now |-> TRUE]] }

----------------------------------------------------------------------------
(* The mailbox gateway (modules/email/gmail_handler_v2.py).  A message is  *)
(* [sender, title, text, labels, today]; its id is its position in the     *)
(* mailbox, so a larger id is a newer message.                             *)

SYSTEM_LABELS == {"INBOX", "UNREAD", "STARRED", "SENT", "IMPORTANT", "TRASH", "SPAM", "DRAFT"}

max_results == 100

RECURSIVE NewestFirst(_)
NewestFirst(S) ==
    IF S = {} THEN <<>>
    ELSE LET m == CHOOSE x \in S : \A y \in S : y <= x
         IN <<m>> \o NewestFirst(S \ {m})

Take(s, n) == IF Len(s) > n THEN SubSeq(s, 1, n) ELSE s

\* the labels of exclude_labels that make it into the query: a label that
\* does not exist in the account is left out (line 157)
ExcludedIds(index, exclude_labels) ==
    {l \in exclude_labels : l \in SYSTEM_LABELS \/ l \in index}

list_emails_unfiltered(mb, index, today_only, exclude_labels, has_limit, limit_newest, ok) ==
    IF ~ok THEN <<>>
    ELSE NewestFirst({i \in 1..Len(mb) : "INBOX" \in mb[i].labels})

\* list_emails(start_date, end_date, archived_status=0, exclude_labels,
\* limit_newest); today_only is start_date = end_date = today, ok is whether
\* the list call went through (an HttpError yields [])
list_emails(mb, index, today_only, exclude_labels, has_limit, limit_newest, ok) ==
    LET api_max_results ==
            IF has_limit /\ limit_newest < max_results /\ limit_newest > 0
            THEN limit_newest ELSE max_results
        matching == {i \in 1..Len(mb) :
                        /\ "INBOX" \in mb[i].labels
                        /\ today_only => mb[i].today
                        /\ mb[i].labels \cap ExcludedIds(index, exclude_labels) = {}}
        messages == Take(NewestFirst(matching), api_max_results)
    IN IF ~ok THEN <<>>
       ELSE IF has_limit /\ Len(messages) > limit_newest
            THEN SubSeq(messages, 1, limit_newest)
            ELSE messages

\* update_email_state(id, labels_to_add=[label]): ok is whether the modify
\* call went through
update_email_state(mb, id, label, ok) ==
    IF ok THEN [mb EXCEPT ![id].labels = @ \cup {label}] ELSE mb

\* _ensure_label_id creates a missing label before the modify call is made
ensure_label(index, label) ==
    IF label \in SYSTEM_LABELS THEN index ELSE index \cup {label}

archive_email(mb, id, ok) ==
    IF ok THEN [mb EXCEPT ![id].labels = @ \ {"INBOX"}] ELSE mb

----------------------------------------------------------------------------
(* Timers and digest jobs.  A Timer object is [state, days,                *)
(* release_time_str, by]: it is pending, cancelled or fired, and a pending *)
(* one keeps the rule its delay was computed from and the thread that      *)
(* started it.  None is the value of newsletter_timer_thread before the    *)
(* first timer is made.  A digest job                                      *)
(* is [origin, phase, result, days, release_time_str]: started by a timer  *)
(* or by send_now; its thread collects the candidates, analyzes and sends, *)
(* and ends (phase "join"); then its waiter, back from thread.join(),      *)
(* reads the globals (phase "arm", with the rule it read) and starts the   *)
(* next timer.                                                             *)

None == [state |-> "none", days |-> {}, release_time_str |-> <<>>, by |-> "none"]
Cancelled == [state |-> "cancelled", days |-> {}, release_time_str |-> <<>>, by |-> "none"]
Fired == [state |-> "fired", days |-> {}, release_time_str |-> <<>>, by |-> "none"]
Timer(ds, release_time_str, by) ==
    [state |-> "pending", days |-> ds, release_time_str |-> release_time_str, by |-> by]

\* the schedule rules that startup and the config messages can put in force
Rules == {<<c.days, c.release_time_str>> : c \in StartupConfigs}
         \cup {<<k.text.days, k.text.release_time_str>> :
                 k \in {m \in MessageKinds : "days" \in DOMAIN m.text}}

Job(origin, phase, result, r) ==
    [origin |-> origin, phase |-> phase, result |-> result,
     days |-> r[1], release_time_str |-> r[2]]

NoRule == <<{}, <<>> >>

JobStates ==
    {Job(o, ph, "none", NoRule) : o \in {"timer", "send_now"}, ph \in {"collect", "analyze"}}
    \cup {Job(o, "join", r, NoRule) : o \in {"timer", "send_now"}, r \in {"sent", "failed"}}
    \cup {Job(o, "arm", "none", r) : o \in {"timer", "send_now"}, r \in Rules}

\* lines 318-324 and 350-352: whether this call gets as far as starting a timer
StartsTimer(c) == Schedulable(c) /\ c.days \cap WeekdayNames # {}

\* `if newsletter_timer_thread:` (lines 289, 295): any Timer object is true
truthy(h) == h # None

\* Timer.cancel(): a timer that has fired or was cancelled stays as it is
cancel(h) == IF h.state = "pending" THEN Cancelled ELSE h

PendingTimers == (IF handle.state = "pending" THEN 1 ELSE 0) + orphans

RECURSIVE Copies(_, _)
Copies(S, b) ==
    IF S = {} THEN 0
    ELSE LET x == CHOOSE y \in S : TRUE
         IN CopiesIn(x, b) + Copies(S \ {x}, b)

\* the create_news_letter threads that have not ended
RunningJobs == Copies({s \in JobStates : s.phase \in {"collect", "analyze"}}, jobs)

\* those of them that a timer started: the controller is Firing
FiringJobs ==
    Copies({s \in JobStates : s.phase \in {"collect", "analyze"} /\ s.origin = "timer"}, jobs)

\* lines 362-363 for the global newsletter_timer_thread: a new pending Timer
\* replaces it; the Timer it referred to is not cancelled, so one that was
\* still pending keeps running unreferenced
start_timer(t) ==
    /\ handle' = t
    /\ orphans' = IF handle.state = "pending" THEN orphans + 1 ELSE orphans

\* find_and_start_newsletter_timer() run in one piece by the poll thread
find_and_start_newsletter_timer(c) ==
    IF StartsTimer(c)
    THEN start_timer(Timer(c.days, c.release_time_str, "poll"))
    ELSE UNCHANGED <<handle, orphans>>

\* create_news_letter_threaded(): the job thread and its waiter are started
create_news_letter_threaded(origin) ==
    jobs' = jobs (+) SetToBag({Job(origin, "collect", "none", NoRule)})

\* the outcomes of one mailbox API call: it may fail while the run's budget
\* of failures lasts
Outcomes == IF faults < MaxFaults THEN {TRUE, FALSE} ELSE {TRUE}

Failed(ok) == IF ok THEN 0 ELSE 1

----------------------------------------------------------------------------
(* The environment: mail arrives, the day changes.                         *)

Deliver(k) ==
    /\ Len(mailbox) < MaxMsgs
    /\ mailbox' = Append(mailbox, [sender |-> k.sender, title |-> k.title, text |-> k.text,
                                   labels |-> {"INBOX"}, today |-> TRUE])
    /\ UNCHANGED <<cfg, file, handle, orphans, jobs, reposts, faults, userLabels, pollPc, msgs, fireVars, topVars, runVars, unitVars>>

NewDay ==
    /\ \E i \in 1..Len(mailbox) : mailbox[i].today
    /\ mailbox' = [i \in 1..Len(mailbox) |-> [mailbox[i] EXCEPT !.today = FALSE]]
    /\ UNCHANGED <<cfg, file, handle, orphans, jobs, reposts, faults, userLabels, pollPc, msgs, fireVars, topVars, runVars, unitVars>>

----------------------------------------------------------------------------
(* The poll thread: check_mails_loop and check_mails.                      *)

\* lines 224-232: the listing of one poll cycle
PollList ==
    /\ pollPc = "sleep"
    /\ \E ok \in Outcomes :
         /\ msgs' = list_emails(mailbox, userLabels, TRUE, {"NOT_WHITELISTED", "ANALYZED"},
                                FALSE, 0, ok)
         /\ faults' = faults + Failed(ok)
    /\ pollPc' = "loop"
    /\ UNCHANGED <<cfg, file, handle, orphans, jobs, reposts, mailbox, userLabels, fireVars, topVars, runVars, unitVars>>

\* line 378: time.sleep(seconds_between_checks) is in the while loop of
\* check_mails_loop and outside its try; time.sleep raises ValueError on a
\* negative number, and the thread ends
sleep_raises(seconds) == seconds < 0

\* where the poll thread is after a cycle: asleep, or ended
after_cycle(seconds) == IF sleep_raises(seconds) THEN "dead" ELSE "sleep"

whitelisted_any(mail) == TRUE

\* line 246
whitelisted(mail) == extract_email_address(mail.sender) \in cfg.whitelisted_senders

\* lines 248-285: a config message is applied, persisted, tagged and archived
ProcessConfig(id) ==
    LET mail == mailbox[id]
    IN /\ whitelisted(mail)
       /\ lower(mail.title) = "config"
       /\ cfg' = new_config(cfg, mail.text)
       /\ file' = json_dump(cfg')
       /\ userLabels' = ensure_label(userLabels, "ANALYZED")
       /\ \E okLabel, okArchive \in Outcomes :
            /\ Failed(okLabel) + Failed(okArchive) <= MaxFaults - faults
            /\ faults' = faults + Failed(okLabel) + Failed(okArchive)
            /\ mailbox' = archive_email(update_email_state(mailbox, id, "ANALYZED", okLabel),
                                        id, okArchive)
       /\ pollPc' = IF should_send_now(mail.text) THEN "cancel_send" ELSE "cancel_rearm"
       /\ UNCHANGED <<handle, orphans, jobs, reposts>>

\* lines 299-307: a repost thread is started and the message archived
ProcessRepost(id) ==
    LET mail == mailbox[id]
    IN /\ whitelisted(mail)
       /\ lower(mail.title) # "config"
       /\ reposts' = [reposts EXCEPT ![id] = @ + 1]
       /\ \E okArchive \in Outcomes :
            /\ faults' = faults + Failed(okArchive)
            /\ mailbox' = archive_email(mailbox, id, okArchive)
       /\ pollPc' = "loop"
       /\ UNCHANGED <<cfg, file, handle, orphans, jobs, userLabels>>

\* lines 309-312: the message of a sender that is not allowed is tagged
ProcessNotWhitelisted(id) ==
    LET mail == mailbox[id]
    IN /\ ~whitelisted(mail)
       /\ userLabels' = ensure_label(userLabels, "NOT_WHITELISTED")
       /\ \E okLabel \in Outcomes :
            /\ faults' = faults + Failed(okLabel)
            /\ mailbox' = update_email_state(mailbox, id, "NOT_WHITELISTED", okLabel)
       /\ pollPc' = "loop"
       /\ UNCHANGED <<cfg, file, handle, orphans, jobs, reposts>>

\* headers.get("subject") of a message that has no Subject header
NoSubject == "None"

\* json.loads(mail["text"]) goes through: a plain-text body [body |-> ...]
\* is not a JSON document
is_json(text) == "body" \notin DOMAIN text

\* what makes one iteration of `for msg in msgs` raise: parse_email's get
\* call fails (line 239), None.lower() (line 248), json.loads (line 251)
raises(mail, okParse) ==
    \/ ~okParse
    \/ /\ whitelisted(mail)
       /\ \/ mail.title = NoSubject
          \/ lower(mail.title) = "config" /\ ~is_json(mail.text)

\* lines 236-312: one iteration of `for msg in msgs`
PollMessage ==
    /\ pollPc = "loop"
    /\ msgs # <<>>
    /\ ~raises(mailbox[Head(msgs)], TRUE)
    /\ msgs' = Tail(msgs)
    /\ \/ ProcessConfig(Head(msgs))
       \/ ProcessRepost(Head(msgs))
       \/ ProcessNotWhitelisted(Head(msgs))
    /\ UNCHANGED <<fireVars, topVars, runVars, unitVars>>

\* an iteration raises: nothing in check_mails catches it, so the exception
\* leaves the loop and check_mails and is logged by check_mails_loop
\* (lines 374-378), which sleeps; the rest of the listing is dropped
PollRaise ==
    /\ pollPc = "loop"
    /\ msgs # <<>>
    /\ \E okParse \in Outcomes :
         /\ raises(mailbox[Head(msgs)], okParse)
         /\ faults' = faults + Failed(okParse)
    /\ msgs' = <<>>
    /\ pollPc' = after_cycle(cfg.seconds_between_checks)
    /\ UNCHANGED <<cfg, file, handle, orphans, jobs, reposts, mailbox, userLabels, fireVars, topVars, runVars, unitVars>>

\* lines 288-290: send_now, the timer is cancelled when there is one
PollCancelForSend ==
    /\ pollPc = "cancel_send"
    /\ handle' = IF truthy(handle) THEN cancel(handle) ELSE handle
    /\ pollPc' = "send"
    /\ UNCHANGED <<cfg, file, orphans, jobs, reposts, faults, mailbox, userLabels, msgs, fireVars, topVars, runVars, unitVars>>

\* line 291
PollSendNow ==
    /\ pollPc = "send"
    /\ create_news_letter_threaded("send_now")
    /\ pollPc' = "loop"
    /\ UNCHANGED <<cfg, file, handle, orphans, reposts, faults, mailbox, userLabels, msgs, fireVars, topVars, runVars, unitVars>>

\* lines 295-296: without send_now the schedule is touched only when
\* newsletter_timer_thread holds a Timer
PollCancelForRearm ==
    /\ pollPc = "cancel_rearm"
    /\ handle' = IF truthy(handle) THEN cancel(handle) ELSE handle
    /\ pollPc' = IF truthy(handle) THEN "rearm" ELSE "loop"
    /\ UNCHANGED <<cfg, file, orphans, jobs, reposts, faults, mailbox, userLabels, msgs, fireVars, topVars, runVars, unitVars>>

\* line 297
PollRearm ==
    /\ pollPc = "rearm"
    /\ find_and_start_newsletter_timer(cfg)
    /\ pollPc' = "loop"
    /\ UNCHANGED <<cfg, file, jobs, reposts, faults, mailbox, userLabels, msgs, fireVars, topVars, runVars, unitVars>>

\* the listing is exhausted: time.sleep(seconds_between_checks)
PollSleep ==
    /\ pollPc = "loop"
    /\ msgs = <<>>
    /\ pollPc' = after_cycle(cfg.seconds_between_checks)
    /\ UNCHANGED <<cfg, file, handle, orphans, jobs, reposts, faults, mailbox, userLabels, msgs, fireVars, topVars, runVars, unitVars>>

----------------------------------------------------------------------------
(* The timer thread, the digest job, its waiter, the repost jobs.          *)

\* the Timer newsletter_timer_thread refers to runs create_news_letter_threaded
TimerFire ==
    /\ handle.state = "pending"
    /\ handle' = Fired
    /\ create_news_letter_threaded("timer")
    /\ UNCHANGED <<cfg, file, orphans, reposts, faults, mailbox, userLabels, pollPc, msgs, fireVars, topVars, runVars, unitVars>>

\* so does a pending Timer that is no longer referred to
OrphanFire ==
    /\ orphans > 0
    /\ orphans' = orphans - 1
    /\ create_news_letter_threaded("timer")
    /\ UNCHANGED <<cfg, file, handle, reposts, faults, mailbox, userLabels, pollPc, msgs, fireVars, topVars, runVars, unitVars>>

Step(s, t) == (jobs (-) SetToBag({s})) (+) SetToBag({t})

\* create_news_letter, lines 141-175: the candidates of the last 7 days are
\* listed and tagged ANALYZED; tagged holds those whose tagging went through
JobCollect(s) ==
    /\ BagIn(s, jobs)
    /\ s.phase = "collect"
    /\ \E ok \in Outcomes :
         LET listed == list_emails(mailbox, userLabels, FALSE, {"ANALYZED"},
                                   TRUE, cfg.limit_newest, ok)
             ids == {listed[i] : i \in 1..Len(listed)}
         IN /\ userLabels' = IF ids = {} THEN userLabels
                             ELSE ensure_label(userLabels, "ANALYZED")
            /\ \E tagged \in SUBSET ids :
                 /\ Failed(ok) + Cardinality(ids \ tagged) <= MaxFaults - faults
                 /\ faults' = faults + Failed(ok) + Cardinality(ids \ tagged)
                 /\ mailbox' = [i \in 1..Len(mailbox) |->
                                  update_email_state(mailbox, i, "ANALYZED", i \in tagged)[i]]
    /\ jobs' = Step(s, [s EXCEPT !.phase = "analyze"])
    /\ UNCHANGED <<cfg, file, handle, orphans, reposts, pollPc, msgs, fireVars, topVars, runVars, unitVars>>

\* create_news_letter, lines 179-198: the job thread ends, with the digest
\* sent or with a failure that was logged
JobFinish(s) ==
    /\ BagIn(s, jobs)
    /\ s.phase = "analyze"
    /\ \E r \in {"sent", "failed"} :
         jobs' = Step(s, [s EXCEPT !.phase = "join", !.result = r])
    /\ UNCHANGED <<cfg, file, handle, orphans, reposts, faults, mailbox, userLabels, pollPc, msgs, fireVars, topVars, runVars, unitVars>>

WaiterSkipsTimer(s) ==
    /\ BagIn(s, jobs)
    /\ s.phase = "join"
    /\ jobs' = jobs (-) SetToBag({s})
    /\ UNCHANGED <<cfg, file, handle, orphans, reposts, faults, mailbox, userLabels, pollPc, msgs, fireVars, topVars, runVars, unitVars>>

\* restart_timer_after_completion, lines 209-212, up to the early returns
\* of find_and_start_newsletter_timer (lines 318-324): back from
\* thread.join(), the waiter reads the globals; it ends there when the
\* schedule is off, else it goes on with the rule it read
WaiterCheck(s) ==
    /\ BagIn(s, jobs)
    /\ s.phase = "join"
    /\ jobs' = IF StartsTimer(cfg)
               THEN Step(s, Job(s.origin, "arm", "none", <<cfg.days, cfg.release_time_str>>))
               ELSE jobs (-) SetToBag({s})
    /\ UNCHANGED <<cfg, file, handle, orphans, reposts, faults, mailbox, userLabels, pollPc, msgs, fireVars, topVars, runVars, unitVars>>

\* lines 358-363 in the waiter: the timer is started with the delay computed
\* from the rule the waiter read
WaiterArm(s) ==
    /\ BagIn(s, jobs)
    /\ s.phase = "arm"
    /\ start_timer(Timer(s.days, s.release_time_str, "waiter"))
    /\ jobs' = jobs (-) SetToBag({s})
    /\ UNCHANGED <<cfg, file, reposts, faults, mailbox, userLabels, pollPc, msgs, fireVars, topVars, runVars, unitVars>>

\* create_repost_email, lines 94-120: the message is tagged ANALYZED (the
\* tagging may fail in all its attempts) and the thread ends
RepostFinish(id) ==
    /\ reposts[id] > 0
    /\ reposts' = [reposts EXCEPT ![id] = @ - 1]
    /\ userLabels' = ensure_label(userLabels, "ANALYZED")
    /\ \E okLabel \in Outcomes :
         /\ faults' = faults + Failed(okLabel)
         /\ mailbox' = update_email_state(mailbox, id, "ANALYZED", okLabel)
    /\ UNCHANGED <<cfg, file, handle, orphans, jobs, pollPc, msgs, fireVars, topVars, runVars, unitVars>>

----------------------------------------------------------------------------
(* The controller specification.                                           *)

\* lines 77 and 369: load_setup, then the first find_and_start_newsletter_timer
Init ==
    /\ cfg \in StartupConfigs
    /\ file = cfg
    /\ handle = IF StartsTimer(cfg)
                THEN Timer(cfg.days, cfg.release_time_str, "startup") ELSE None
    /\ orphans = 0
    /\ jobs = EmptyBag
    /\ reposts = [i \in 1..MaxMsgs |-> 0]
    /\ faults = 0
    /\ mailbox = <<>>
    /\ userLabels = {}
    /\ pollPc = "sleep"
    /\ msgs = <<>>
    /\ now = [day |-> 0, tod |-> 0]
    /\ rule = [days |-> {"Monday"}, release_time_str |-> <<0>>]
    /\ target_datetime = Uncomputed
    /\ news_items = <<>>
    /\ N = 5
    /\ news_list = Unselected
    /\ top_5_articles = Unselected
    /\ run = NoRun
    /\ to_apply = NoPayload
    /\ seen = NoReader
    /\ UnitsIdle

Next ==
    \/ \E k \in MessageKinds : Deliver(k)
    \/ NewDay
    \/ PollList
    \/ PollMessage
    \/ PollRaise
    \/ PollCancelForSend
    \/ PollSendNow
    \/ PollCancelForRearm
    \/ PollRearm
    \/ PollSleep
    \/ TimerFire
    \/ OrphanFire
    \/ \E s \in JobStates : JobCollect(s)
    \/ \E s \in JobStates : JobFinish(s)
    \/ \E s \in JobStates : WaiterCheck(s)
    \/ \E s \in JobStates : WaiterArm(s)
    \/ \E i \in 1..MaxMsgs : RepostFinish(i)

Spec == Init /\ [][Next]_vars

\* a waiter thread that is back from thread.join() goes on running
Waiter == \E s \in JobStates : WaiterCheck(s) \/ WaiterArm(s)

FairSpec == Spec /\ WF_vars(Waiter)

----------------------------------------------------------------------------
(* The next-fire specification: the computation is applied once to each    *)
(* clock reading of one week and each rule.                                *)

FireInit ==
    /\ cfg \in StartupConfigs
    /\ cfg.days # {}
    /\ file = cfg
    /\ handle = Timer(cfg.days, cfg.release_time_str, "startup")
    /\ orphans = 0
    /\ jobs = EmptyBag
    /\ reposts = [i \in 1..MaxMsgs |-> 0]
    /\ faults = 0
    /\ mailbox = <<>>
    /\ userLabels = {}
    /\ pollPc = "sleep"
    /\ msgs = <<>>
    /\ now \in [day : 0..6, tod : TimesOfDay]
    /\ rule \in [days : (SUBSET WeekdayNames) \ {{}},
                 release_time_str : {<<t>> : t \in TimesOfDay}]
    /\ target_datetime = Uncomputed
    /\ news_items = <<>>
    /\ N = 5
    /\ news_list = Unselected
    /\ top_5_articles = Unselected
    /\ run = NoRun
    /\ to_apply = NoPayload
    /\ seen = NoReader
    /\ UnitsIdle

\* lines 328-356
ComputeTarget ==
    /\ target_datetime = Uncomputed
    /\ news_items = <<>>
    /\ N = 5
    /\ news_list = Unselected
    /\ top_5_articles = Unselected
    /\ run = NoRun
    /\ to_apply = NoPayload
    /\ seen = NoReader
    /\ UnitsIdle
    /\ target_datetime' = Target(now, rule.days, rule.release_time_str)
    /\ UNCHANGED <<now, rule, ctlVars, topVars, runVars, unitVars>>

FireNext == ComputeTarget

FireSpec == FireInit /\ [][FireNext]_vars

----------------------------------------------------------------------------
(* The poll-loop specification: the mailbox already holds LoopMsgs         *)
(* messages of today when the server starts with the schedule off, and the *)
(* poll thread goes through them.                                          *)

\* messages in the mailbox at the start
LoopMsgs == 2

\* the messages the mailbox can hold at the start: sender header, subject, body
LoopKinds ==
    { [sender |-> <<"jane@x.com">>, title |-> "config",
       text |-> [body |-> "news"]],
      [sender |-> <<"Jane Doe", " ", "<", "jane@x.com", ">">>, title |-> NoSubject,
       text |-> [body |-> "news"]],
      [sender |-> <<"jane@x.com">>, title |-> "Hello",
       text |-> [body |-> "news"]],
      [sender |-> <<"Eve", " ", "<", "eve@x.com", ">">>, title |-> "config",
       text |-> [active |-> FALSE]],
      [sender |-> <<"jane@x.com">>, title |-> "Config",
       text |-> [key \in {} |-> TRUE]],
      [sender |-> <<"jane@x.com">>, title |-> "config",
       text |-> [colour |-> "red"]],
      [sender |-> <<"jane@x.com">>, title |-> "config",
       text |-> [seconds_between_checks |-> -1]],
      [sender |-> <<"Jane Doe", " ", "<", "jane@x.com", ">">>, title |-> "CONFIG",
       text |-> [limit_newest |-> 3, newsletter_email |-> "", theme |-> "dark"]] }

\* setup.json at the start: a complete file with the schedule off, or the
\* file check_directories writes when there is none (line 44)
LoopFiles ==
    {c \in StartupConfigs : ~StartsTimer(c)}
    \cup {[active |-> TRUE, days |-> {}, release_time_str |-> <<>>,
            seconds_between_checks |-> 10]}

LoopInit ==
    /\ file \in LoopFiles
    /\ cfg = load_setup(file)
    /\ handle = None
    /\ orphans = 0
    /\ jobs = EmptyBag
    /\ reposts = [i \in 1..LoopMsgs |-> 0]
    /\ faults = 0
    /\ mailbox \in [1..LoopMsgs ->
                      {[sender |-> k.sender, title |-> k.title, text |-> k.text,
                        labels |-> {"INBOX"}, today |-> TRUE] : k \in LoopKinds}]
    /\ userLabels = {}
    /\ pollPc = "sleep"
    /\ msgs = <<>>
    /\ now = [day |-> 0, tod |-> 0]
    /\ rule = [days |-> {"Monday"}, release_time_str |-> <<0>>]
    /\ target_datetime = Uncomputed
    /\ news_items = <<>>
    /\ N = 5
    /\ news_list = Unselected
    /\ top_5_articles = Unselected
    /\ run = NoRun
    /\ to_apply = NoPayload
    /\ seen = NoReader
    /\ UnitsIdle

LoopNext ==
    \/ PollList
    \/ PollMessage
    \/ PollRaise
    \/ PollCancelForRearm
    \/ PollSleep
    \/ \E i \in 1..LoopMsgs : RepostFinish(i)

LoopSpec == LoopInit /\ [][LoopNext]_vars

\* the poll thread and the repost threads are scheduled
FairLoopSpec == LoopSpec /\ WF_vars(LoopNext)

----------------------------------------------------------------------------
(* The run specification: one run of create_news_letter or of              *)
(* create_repost_email from the analysis on, for every response of the     *)
(* classification service.  A response is what a Gemini call gives back:   *)
(* the call raises, response.text is None, or it is a text that is not     *)
(* JSON, a JSON array, or a JSON object whose "news" holds n articles.      *)

\* articles in the "news" list of a response
MaxNews == 1

Responses ==
    {[kind |-> k, news |-> 0] : k \in {"raises", "none", "garbage", "array"}}
    \cup {[kind |-> "object", news |-> n] : n \in 0..MaxNews}

\* the second call of a run that makes one call only
NoCall == [kind |-> "no call", news |-> 0]

\* json.loads(response) followed by .get("news", []): the parsed list, the
\* JSONDecodeError the callers catch, or an exception they do not catch
\* (the call itself raised, TypeError on None, AttributeError on a list)
parse_news(response) ==
    CASE response.kind = "object"  -> [err |-> "none", news |-> response.news]
      [] response.kind = "garbage" -> [err |-> "JSONDecodeError", news |-> 0]
      [] OTHER                     -> [err |-> "escapes", news |-> 0]

\* what an analysis hands to its caller: the number of articles returned,
\* whether an exception left the function, whether the second pass ran
Analysis(final_articles, escaped, second_pass) ==
    [final_articles |-> final_articles, escaped |-> escaped, second_pass |-> second_pass]

analyze_second_pass_always(evaluation_response, articles_response) ==
    LET second == parse_news(articles_response)
    IN IF second.err = "escapes" THEN Analysis(0, TRUE, TRUE)
       ELSE Analysis(second.news, FALSE, TRUE)

\* flows.py lines 275-346
analyze_emails_newsletter(evaluation_response, articles_response) ==
    LET first == parse_news(evaluation_response)
        second == parse_news(articles_response)
    IN IF first.err = "escapes" THEN Analysis(0, TRUE, FALSE)
       ELSE IF first.err = "JSONDecodeError" THEN Analysis(0, FALSE, FALSE)
       ELSE IF second.err = "escapes" THEN Analysis(0, TRUE, TRUE)
       ELSE IF second.err = "JSONDecodeError" THEN Analysis(0, FALSE, TRUE)
       ELSE Analysis(second.news, FALSE, TRUE)

\* flows.py lines 199-209
analyze_repost(articles_response) ==
    LET only == parse_news(articles_response)
    IN IF only.err = "escapes" THEN Analysis(0, TRUE, FALSE)
       ELSE IF only.err = "JSONDecodeError" THEN Analysis(0, FALSE, FALSE)
       ELSE Analysis(only.news, FALSE, FALSE)

RunInit ==
    /\ \E c \in StartupConfigs, newsletter_email \in {"", "list@x.com"} :
         cfg = [c EXCEPT !.newsletter_email = newsletter_email]
    /\ file = cfg
    /\ handle = IF StartsTimer(cfg) THEN Fired ELSE None
    /\ orphans = 0
    /\ jobs = EmptyBag
    /\ reposts = [i \in 1..MaxMsgs |-> 0]
    /\ faults = 0
    /\ mailbox = <<>>
    /\ userLabels = {}
    /\ pollPc = "sleep"
    /\ msgs = <<>>
    /\ now = [day |-> 0, tod |-> 0]
    /\ rule = [days |-> {"Monday"}, release_time_str |-> <<0>>]
    /\ target_datetime = Uncomputed
    /\ news_items = <<>>
    /\ N = 5
    /\ news_list = Unselected
    /\ top_5_articles = Unselected
    /\ \E job \in {"newsletter", "repost"}, first, second \in Responses :
         run = [pc |-> "analyze", job |-> job,
                first_response |-> first,
                second_response |-> IF job = "newsletter" THEN second ELSE NoCall,
                newsletter_email |-> cfg.newsletter_email,
                analysis |-> Analysis(0, FALSE, FALSE),
                send_calls |-> 0]
    /\ to_apply = NoPayload
    /\ seen = NoReader
    /\ UnitsIdle

\* server_v2.py line 177 (create_news_letter), line 90 (create_repost_email);
\* an exception that leaves the analysis is caught by the outer try of the
\* job (lines 196-198, 122-124), which logs it and returns
sends_unconditionally(newsletter_email) == TRUE

\* lines 185-187 and 109-111: `if not newsletter_email:` returns before
\* the call of send_email_html
sends(newsletter_email) == newsletter_email # ""

RunAnalyze ==
    /\ run.pc = "analyze"
    /\ LET a == IF run.job = "newsletter"
                THEN analyze_emails_newsletter(run.first_response, run.second_response)
                ELSE analyze_repost(run.first_response)
       IN run' = [run EXCEPT !.analysis = a,
                             !.pc = IF a.escaped THEN "done" ELSE "send"]
    /\ UNCHANGED <<ctlVars, fireVars, topVars, to_apply, seen, unitVars>>

\* server_v2.py lines 179-194 and 92-118: the email is rendered from the
\* articles, whatever their number, and sent when newsletter_email is set
RunSend ==
    /\ run.pc = "send"
    /\ run' = [run EXCEPT !.pc = "done",
                          !.send_calls = IF sends(run.newsletter_email) THEN @ + 1 ELSE @]
    /\ UNCHANGED <<ctlVars, fireVars, topVars, to_apply, seen, unitVars>>

\* server_v2.py lines 209-212: the newsletter thread has ended, thread.join()
\* returns in the waiter, which calls find_and_start_newsletter_timer
RunJoin ==
    /\ run.pc = "done"
    /\ run.job = "newsletter"
    /\ run' = [run EXCEPT !.pc = "joined"]
    /\ IF StartsTimer(cfg)
       THEN start_timer(Timer(cfg.days, cfg.release_time_str, "waiter"))
       ELSE UNCHANGED <<handle, orphans>>
    /\ UNCHANGED <<cfg, file, jobs, reposts, faults, mailbox, userLabels, pollPc, msgs,
                   fireVars, topVars, to_apply, seen, unitVars>>

\* the job and its waiter are threads of their own (lines 203, 214, 306):
\* the poll thread takes its steps beside them
RunNext == RunAnalyze \/ RunSend \/ RunJoin \/ PollList \/ PollSleep

RunSpec == RunInit /\ [][RunNext]_vars

----------------------------------------------------------------------------
(* The selection specification: extract_top_N (main.py) and the top-5      *)
(* selection of analyze_emails_newsletter (flows.py) are applied to every  *)
(* "news" list of the bounded domain.  An article is [ID, source,          *)
(* relevancy]; its ID is its position in the list of the response.         *)

\* articles in the response
MaxArticles == 3
\* the largest cap N given to extract_top_N
MaxCap == 2
\* the largest relevancy score
MaxScore == 2

\* the slice [:5] of flows.py line 290
TopCount == 5

\* the source values: two sites, and "" for an article without one
Sources == {"", "a.com", "b.com"}

\* list.insert(i, x), positions counted from 1
insert(list, i, x) == SubSeq(list, 1, i - 1) \o <<x>> \o SubSeq(list, i, Len(list))

\* the position of the first x of list with x.relevancy < relevancy, 0 if none
FirstBelow(list, relevancy) ==
    LET below == {i \in 1..Len(list) : list[i].relevancy < relevancy}
    IN IF below = {} THEN 0 ELSE Min(below)

\* main.py lines 58-80: the loop `for news in news_items`
RECURSIVE top_loop(_, _, _)
top_loop(items, list, included_sources) ==
    IF items = <<>> THEN list
    ELSE LET news == Head(items)
             i == FirstBelow(list, news.relevancy)
         IN IF news.source # "" /\ news.source \in included_sources
            THEN top_loop(Tail(items), list, included_sources)
            ELSE top_loop(Tail(items),
                          IF i = 0 THEN Append(list, news) ELSE insert(list, i, news),
                          IF news.source # "" THEN included_sources \cup {news.source}
                          ELSE included_sources)

\* main.py lines 34-82, from the parsed "news" list on
extract_top_N(items, cap) == Take(top_loop(items, <<>>, {}), cap)

\* sorted(all_articles, key=relevancy, reverse=True): a stable sort, articles
\* of equal relevancy keep the order of the response
RECURSIVE sorted_reverse(_, _)
sorted_reverse(items, list) ==
    IF items = <<>> THEN list
    ELSE LET i == FirstBelow(list, Head(items).relevancy)
         IN sorted_reverse(Tail(items),
                           IF i = 0 THEN Append(list, Head(items))
                           ELSE insert(list, i, Head(items)))

top_uncapped(all_articles) == sorted_reverse(all_articles, <<>>)

\* flows.py lines 288-290
top_5(all_articles) == Take(sorted_reverse(all_articles, <<>>), TopCount)

NewsLists ==
    UNION {{[i \in 1..n |-> [ID |-> i, source |-> f[i][1], relevancy |-> f[i][2]]] :
              f \in [1..n -> Sources \X (1..MaxScore)]} : n \in 0..MaxArticles}

TopInit ==
    /\ cfg \in StartupConfigs
    /\ ~StartsTimer(cfg)
    /\ file = cfg
    /\ handle = None
    /\ orphans = 0
    /\ jobs = EmptyBag
    /\ reposts = [i \in 1..MaxMsgs |-> 0]
    /\ faults = 0
    /\ mailbox = <<>>
    /\ userLabels = {}
    /\ pollPc = "sleep"
    /\ msgs = <<>>
    /\ now = [day |-> 0, tod |-> 0]
    /\ rule = [days |-> {"Monday"}, release_time_str |-> <<0>>]
    /\ target_datetime = Uncomputed
    /\ news_items \in NewsLists
    /\ N \in 1..MaxCap
    /\ news_list = Unselected
    /\ top_5_articles = Unselected
    /\ run = NoRun
    /\ to_apply = NoPayload
    /\ seen = NoReader
    /\ UnitsIdle

\* main.py line 162: news_list = extract_top_N(response)
SelectTopN ==
    /\ news_list = Unselected
    /\ news_list' = extract_top_N(news_items, N)
    /\ UNCHANGED <<ctlVars, fireVars, runVars, unitVars, news_items, N, top_5_articles>>

\* flows.py lines 289-290
SelectTop5 ==
    /\ top_5_articles = Unselected
    /\ top_5_articles' = top_5(news_items)
    /\ UNCHANGED <<ctlVars, fireVars, runVars, unitVars, news_items, N, news_list>>

TopNext == SelectTopN \/ SelectTop5

TopSpec == TopInit /\ [][TopNext]_vars

----------------------------------------------------------------------------
(* The reader specification: check_mails applies the payload of a config   *)
(* message one key at a time (lines 258-274) while another thread reads    *)
(* the globals: the waiter in find_and_start_newsletter_timer, or a digest *)
(* job in create_news_letter.  No lock is taken on either side, so the     *)
(* reads and the assignments interleave in every order.                    *)

\* the payloads followed
TornPayloads ==
    { [days |-> {"Tuesday"}, release_time_str |-> <<2>>],
      [active |-> FALSE, days |-> {}],
      [limit_newest |-> 3, newsletter_email |-> ""] }

\* the orders in which `for key, value in new_modifications.items()` can
\* go through the keys of a payload: the order of the keys in the body
KeyOrders(payload) ==
    {order \in [1..Cardinality(DOMAIN payload) -> DOMAIN payload] :
        \A i, j \in 1..Cardinality(DOMAIN payload) : i # j => order[i] # order[j]}

\* the reads of find_and_start_newsletter_timer: active (line 318),
\* release_time_str and days (line 322), release_time_str (line 330),
\* days (line 333); those of create_news_letter: limit_newest (line 147),
\* newsletter_email (line 186)
Readers == {"timer", "job"}

TornInit ==
    /\ cfg \in StartupConfigs
    /\ file = cfg
    /\ handle = Fired
    /\ orphans = 0
    /\ jobs = EmptyBag
    /\ reposts = [i \in 1..MaxMsgs |-> 0]
    /\ faults = 0
    /\ mailbox = <<>>
    /\ userLabels = {}
    /\ pollPc = "loop"
    /\ msgs = <<>>
    /\ now = [day |-> 0, tod |-> 0]
    /\ rule = [days |-> {"Monday"}, release_time_str |-> <<0>>]
    /\ target_datetime = Uncomputed
    /\ news_items = <<>>
    /\ N = 5
    /\ news_list = Unselected
    /\ top_5_articles = Unselected
    /\ run = NoRun
    /\ \E payload \in TornPayloads : \E order \in KeyOrders(payload) :
         to_apply = [keys |-> order, payload |-> payload, old |-> cfg]
    /\ \E reader \in Readers :
         seen = [pc |-> IF reader = "timer" THEN "318" ELSE "147",
                 fields |-> {}, vals |-> cfg]
    /\ UnitsIdle

\* lines 258-274: one turn of the loop assigns one global
ApplyKey ==
    /\ to_apply.keys # <<>>
    /\ LET key == Head(to_apply.keys)
       IN cfg' = new_config(cfg, [k \in {key} |-> to_apply.payload[key]])
    /\ to_apply' = [to_apply EXCEPT !.keys = Tail(@)]
    /\ UNCHANGED <<file, handle, orphans, jobs, reposts, faults, mailbox, userLabels,
                   pollPc, msgs, fireVars, topVars, run, seen, unitVars>>

\* lines 280-281: the globals are written to configs/setup.json
ApplyPersist ==
    /\ to_apply.keys = <<>>
    /\ file # json_dump(cfg)
    /\ file' = json_dump(cfg)
    /\ UNCHANGED <<cfg, handle, orphans, jobs, reposts, faults, mailbox, userLabels,
                   pollPc, msgs, fireVars, topVars, runVars, unitVars>>

\* the reader reads the global `field` and goes on at `next`
Read(field, next) ==
    seen' = [seen EXCEPT !.pc = next,
                         !.fields = @ \cup {field},
                         !.vals = [@ EXCEPT ![field] = cfg[field]]]

\* one step of find_and_start_newsletter_timer in the waiter thread
TimerRead ==
    /\ \/ /\ seen.pc = "318"
          /\ Read("active", IF cfg.active THEN "322" ELSE "done")
       \/ /\ seen.pc = "322"
          /\ seen' = [seen EXCEPT !.pc = IF cfg.release_time_str # <<>> /\ cfg.days # {}
                                          THEN "330" ELSE "done"]
       \/ /\ seen.pc = "330"
          /\ Read("release_time_str", "333")
       \/ /\ seen.pc = "333"
          /\ Read("days", "done")
    /\ UNCHANGED <<ctlVars, fireVars, topVars, run, to_apply, unitVars>>

\* one step of create_news_letter in a job thread
JobRead ==
    /\ \/ /\ seen.pc = "147"
          /\ Read("limit_newest", "186")
       \/ /\ seen.pc = "186"
          /\ Read("newsletter_email", "done")
    /\ UNCHANGED <<ctlVars, fireVars, topVars, run, to_apply, unitVars>>

TornNext == ApplyKey \/ ApplyPersist \/ TimerRead \/ JobRead

TornSpec == TornInit /\ [][TornNext]_vars

----------------------------------------------------------------------------
(* Properties of the controller.                                           *)

\* C1: at most one digest job (create_news_letter) is running at any time,
\* whatever the interleaving of timer fires, config messages (with or without
\* send_now) and job completions.
C1_AtMostOneDigestJob == RunningJobs <= 1

\* C2: while a digest job that a timer started is running (Firing), no
\* newsletter timer is pending.
C2_NoTimerWhileFiring == FiringJobs > 0 => PendingTimers = 0

\* C3: at most one newsletter timer is pending at any time.
C3_AtMostOneTimer == PendingTimers <= 1

TimerJoined == {s \in JobStates : s.origin = "timer" /\ s.phase = "join"}

\* C4: once a digest job that a timer started has ended, with the digest sent
\* or with a failure, a timer is eventually pending again, unless the config
\* no longer is active with days and a release time.
C4_RearmedAfterJob ==
    (\E s \in TimerJoined : BagIn(s, jobs)) ~> (PendingTimers > 0 \/ ~StartsTimer(cfg))

\* C4, the case: the timer the variable refers to was started by the waiter
\* of a job, and the schedule is on.
C4_Witness ==
    /\ handle.state = "pending"
    /\ handle.by = "waiter"
    /\ StartsTimer(cfg)
    /\ jobs = EmptyBag

\* C5: when check_mails is done with a config message without send_now and
\* the config it leaves is active with days and a release time, a timer
\* computed from that config is pending, also when none was pending before.
C5_RearmedAfterConfig ==
    [][(pollPc \in {"cancel_rearm", "rearm"} /\ pollPc' = "loop" /\ StartsTimer(cfg))
         => (/\ handle'.state = "pending"
             /\ handle'.days = cfg.days
             /\ handle'.release_time_str = cfg.release_time_str)]_vars

\* C6: while the config is not active or has no days or no release time
\* (and the poll thread is not in the middle of applying a config message),
\* the controller is Idle: no timer is pending, so no scheduled digest fires.
C6_IdleWhenScheduleOff ==
    (~StartsTimer(cfg) /\ pollPc \in {"sleep", "loop"}) => PendingTimers = 0

NotAllowed(mail) == extract_email_address(mail.sender) \notin cfg.whitelisted_senders

\* C9: processing a message whose extracted sender address is not in
\* whitelisted_senders changes neither the config nor configs/setup.json,
\* starts no repost and no digest job and leaves the timer alone; all it may
\* do is add the NOT_WHITELISTED label to that message.
C9_NotWhitelistedOnlyTagged ==
    [][(pollPc = "loop" /\ msgs # <<>> /\ msgs' = Tail(msgs) /\ NotAllowed(mailbox[Head(msgs)]))
         => (/\ cfg' = cfg
             /\ file' = file
             /\ jobs' = jobs
             /\ reposts' = reposts
             /\ handle' = handle
             /\ orphans' = orphans
             /\ pollPc' \in {"loop", "sleep"}
             /\ \/ mailbox' = mailbox
                \/ mailbox' = [mailbox EXCEPT ![Head(msgs)].labels = @ \cup {"NOT_WHITELISTED"}])]_vars

\* C9, the case: a config message of a sender that is not allowed, asking
\* for active = false and send_now, has been tagged; the schedule is on and
\* no job runs.
C9_Witness ==
    /\ \E i \in 1..Len(mailbox) :
         /\ NotAllowed(mailbox[i])
         /\ lower(mailbox[i].title) = "config"
         /\ "NOT_WHITELISTED" \in mailbox[i].labels
    /\ cfg.active
    /\ jobs = EmptyBag
    /\ handle.state = "pending"

ListedIds(exclude_labels, today_only, has_limit) ==
    LET listed == list_emails(mailbox, userLabels, today_only, exclude_labels,
                              has_limit, cfg.limit_newest, TRUE)
    IN {listed[i] : i \in 1..Len(listed)}

\* C10: a message that carries NOT_WHITELISTED or ANALYZED is returned by no
\* list_emails call that names the label in exclude_labels (the listing of
\* check_mails, the listing of create_news_letter), and the listing that
\* check_mails goes through holds no message it has tagged NOT_WHITELISTED.
C10_TaggedNeverListed ==
    /\ \A i \in ListedIds({"NOT_WHITELISTED", "ANALYZED"}, TRUE, FALSE) :
         mailbox[i].labels \cap {"NOT_WHITELISTED", "ANALYZED"} = {}
    /\ \A i \in ListedIds({"ANALYZED"}, FALSE, TRUE) :
         "ANALYZED" \notin mailbox[i].labels
    /\ \A k \in 1..Len(msgs) : "NOT_WHITELISTED" \notin mailbox[msgs[k]].labels

\* C10, the case: a message of today that is still in the inbox carries one
\* of the tags, and check_mails has made a listing that is empty.
C10_Witness ==
    /\ \E i \in 1..Len(mailbox) :
         /\ "INBOX" \in mailbox[i].labels
         /\ mailbox[i].today
         /\ mailbox[i].labels \cap {"NOT_WHITELISTED", "ANALYZED"} # {}
    /\ pollPc = "loop"
    /\ msgs = <<>>
    /\ faults = 0

----------------------------------------------------------------------------
(* Properties of the next-fire computation.                                *)

WeekInstants == 7 * SlotsPerDay

\* C7: the computed target lies in (now, now + 7 days] and falls on a weekday
\* of days, for every clock reading, every non-empty set of weekday names
\* and every release time.
C7_TargetInWindow ==
    target_datetime # Uncomputed =>
        /\ target_datetime # NoTarget
        /\ Instant(now) < Instant(target_datetime)
        /\ Instant(target_datetime) <= Instant(now) + WeekInstants
        /\ strftime_A(target_datetime) \in rule.days

\* C7, the case: the target is exactly 7 days after now.
C7_Witness ==
    /\ target_datetime # Uncomputed
    /\ Instant(target_datetime) = Instant(now) + WeekInstants

\* the instants after dt that are a weekday of ds at the release time
Occurrences(dt, ds, release_time_str) ==
    {o \in [day : dt.day..(dt.day + 7), tod : {strptime(release_time_str)}] :
        strftime_A(o) \in ds /\ Instant(o) > Instant(dt)}

\* C8: the computed target is the earliest instant after now that is a
\* weekday of days at the release time.  With days = {Monday} and the
\* release time at slot 1, a Monday at slot 0 gives that Monday, a Monday at
\* slot 2 gives the Monday after.
C8_TargetIsEarliest ==
    target_datetime # Uncomputed =>
        /\ target_datetime \in Occurrences(now, rule.days, rule.release_time_str)
        /\ \A o \in Occurrences(now, rule.days, rule.release_time_str) :
             Instant(target_datetime) <= Instant(o)
        /\ (rule.days = {"Monday"} /\ rule.release_time_str = <<1>> /\ now.day = 0) =>
             target_datetime = IF now.tod < 1 THEN [day |-> 0, tod |-> 1]
                               ELSE [day |-> 7, tod |-> 1]

\* C8, the case: Monday after the release time, Monday being the only day:
\* the target is the Monday after.
C8_Witness ==
    /\ rule.days = {"Monday"}
    /\ rule.release_time_str = <<1>>
    /\ now = [day |-> 0, tod |-> 2]
    /\ target_datetime = [day |-> 7, tod |-> 1]

----------------------------------------------------------------------------
(* Properties of the repost path.                                          *)

\* C11: a message of an allowed sender that is not a config message starts
\* at most one repost job over all poll cycles; two repost jobs of one
\* message running at once are two that were started.
C11_OneRepostPerMessage == \A i \in 1..MaxMsgs : reposts[i] <= 1

----------------------------------------------------------------------------
(* Properties of the poll loop.                                            *)

\* C12: within one check_mails invocation, whatever happens to the message
\* in hand (parse_email raises, no subject, a config body that is not
\* JSON), the messages after it in the listing stay to be processed: a step
\* taken while more than one message is left drops at most the first.
C12_LoopGoesOn ==
    [][(pollPc = "loop" /\ Len(msgs) > 1) => msgs' \in {msgs, Tail(msgs)}]_vars

----------------------------------------------------------------------------
(* Properties of one run of a job.                                         *)

\* C13: a run whose aggregation yielded zero articles (also because a
\* classification response was not valid JSON) makes no call of
\* send_email_html.
C13_NoEmptyDigestSent ==
    (run.pc = "done" /\ ~run.analysis.escaped /\ run.analysis.final_articles = 0)
        => run.send_calls = 0

\* the response is a text that json.loads rejects
Malformed(response) == response.kind = "garbage"

----------------------------------------------------------------------------
(* Properties of the top-N selection.                                      *)

SourcesOf(list) == {list[i].source : i \in 1..Len(list)}

OnePerSource(list) ==
    \A i, j \in 1..Len(list) : i # j => list[i].source # list[j].source

\* C15: what the top-N step selects (extract_top_N, the top 5 of
\* analyze_emails_newsletter) holds no two articles of equal source.
C15_SourcesUnique ==
    /\ news_list # Unselected => OnePerSource(news_list)
    /\ top_5_articles # Unselected => OnePerSource(top_5_articles)

Descending(list) ==
    \A i, j \in 1..Len(list) : i < j => list[i].relevancy >= list[j].relevancy

\* C16: the selection returns exactly min(cap, number of distinct sources)
\* articles, in descending order of relevancy.
C16_ExactlyMinCapSources ==
    /\ news_list # Unselected =>
          /\ Len(news_list) = Min({N, Cardinality(SourcesOf(news_items))})
          /\ Descending(news_list)
    /\ top_5_articles # Unselected =>
          /\ Len(top_5_articles) = Min({TopCount, Cardinality(SourcesOf(news_items))})
          /\ Descending(top_5_articles)

BestOfSource(list) ==
    \A i \in 1..Len(list) : \A k \in 1..Len(news_items) :
        news_items[k].source = list[i].source =>
            news_items[k].relevancy <= list[i].relevancy

\* C17: the article the selection keeps of a source has the highest
\* relevancy of all articles of that source in the response, in whatever
\* order the response lists them, and no other article of the source is
\* selected.
C17_BestOfEachSource ==
    /\ news_list # Unselected => BestOfSource(news_list) /\ OnePerSource(news_list)
    /\ top_5_articles # Unselected =>
          BestOfSource(top_5_articles) /\ OnePerSource(top_5_articles)

\* a step that applies the config message at the head of the listing
AppliesConfig ==
    /\ pollPc = "loop"
    /\ msgs # <<>>
    /\ pollPc' \in {"cancel_send", "cancel_rearm"}

\* C18: applying a config message whose body is the empty JSON object
\* leaves the seven config fields as they were, and load_setup of the file
\* that was written gives the config there was before the message.
C18_EmptyObjectIsIdentity ==
    [][(AppliesConfig /\ DOMAIN mailbox[Head(msgs)].text = {})
         => (/\ cfg' = cfg
             /\ DOMAIN cfg' = ConfigKeys
             /\ DOMAIN file' = ConfigKeys
             /\ load_setup(file') = cfg)]_vars

\* C18, the case: a config message with the empty object has been applied
\* and archived, with a config that differs from the defaults of load_setup.
C18_Witness ==
    /\ \E i \in 1..Len(mailbox) :
         /\ DOMAIN mailbox[i].text = {}
         /\ lower(mailbox[i].title) = "config"
         /\ "INBOX" \notin mailbox[i].labels
    /\ cfg # Defaults
    /\ pollPc = "cancel_rearm"

\* C19: when a config message is applied, every config field whose key is
\* not in the payload keeps its value, a key that is not a recognised name
\* changes no field, and such a key makes no iteration raise.
C19_AbsentAndUnknownKeysKeep ==
    [][/\ AppliesConfig =>
            /\ DOMAIN cfg' = ConfigKeys
            /\ \A key \in ConfigKeys :
                 key \notin DOMAIN mailbox[Head(msgs)].text => cfg'[key] = cfg[key]
       /\ (pollPc = "loop" /\ msgs # <<>> /\ pollPc' = "sleep" /\ faults' = faults) =>
            ~(/\ whitelisted(mailbox[Head(msgs)])
              /\ lower(mailbox[Head(msgs)].title) = "config"
              /\ is_json(mailbox[Head(msgs)].text))]_vars

\* C19, the case: a config message with the keys limit_newest,
\* newsletter_email and the unknown key theme has been applied: the two
\* fields have the new values, whitelisted_senders is as it was.
C19_Witness ==
    /\ \E i \in 1..Len(mailbox) :
         /\ "theme" \in DOMAIN mailbox[i].text
         /\ "INBOX" \notin mailbox[i].labels
    /\ cfg.limit_newest = 3
    /\ cfg.newsletter_email = ""
    /\ cfg.whitelisted_senders = {JaneAddr}
    /\ pollPc = "cancel_rearm"

----------------------------------------------------------------------------
(* Properties of the readers of the config.                                *)

\* the config once the whole payload is applied
NewConfig == new_config(to_apply.old, to_apply.payload)

\* C20: what a thread has read of the config while check_mails applies a
\* config message is the old config or the new one in every field it read,
\* never days of one with release_time_str of the other.
C20_ReadsOldOrNew ==
    seen.pc = "done" =>
        \/ \A field \in seen.fields : seen.vals[field] = to_apply.old[field]
        \/ \A field \in seen.fields : seen.vals[field] = NewConfig[field]

----------------------------------------------------------------------------
(* configs/setup.json on disk: the write of check_mails (lines 280-281),   *)
(* a crash of the process, the load of the next process start.             *)

\* line 281: the order of the keys in the dict handed to json.dump
DumpKeys ==
    <<"active", "days", "release_time_str", "seconds_between_checks",
      "whitelisted_senders", "newsletter_email", "limit_newest">>

\* json.dump: the text of an object as the chunks the encoder hands to
\* f.write: the opening brace, one chunk per key, the closing brace
dumps(obj) ==
    LET keys == SelectSeq(DumpKeys, LAMBDA key : key \in DOMAIN obj)
    IN <<<<"{">>>> \o [i \in 1..Len(keys) |-> <<keys[i], obj[keys[i]]>>] \o <<<<"}">>>>

\* what json.load raises on a text that is not a complete document
JSONDecodeError == [error |-> "JSONDecodeError"]

\* line 62, json.load: the object of a complete text; an empty text or a
\* text that stops before the closing brace raises
json_load(text) ==
    IF /\ Len(text) >= 2
       /\ text[1] = <<"{">>
       /\ text[Len(text)] = <<"}">>
       /\ \A i \in 2..(Len(text) - 1) : Len(text[i]) = 2
    THEN LET pairs == 2..(Len(text) - 1)
         IN [key \in {text[i][1] : i \in pairs} |->
                text[CHOOSE i \in pairs : text[i][1] = key][2]]
    ELSE JSONDecodeError

\* the bodies of the config messages whose application is persisted
PersistPayloads ==
    { [active |-> FALSE],
      [days |-> {"Tuesday"}, release_time_str |-> <<2>>],
      [newsletter_email |-> "", limit_newest |-> 3],
      [key \in {} |-> TRUE] }

\* configs/setup.json before the write: a file of an earlier write, or the
\* file of check_directories (line 44)
PersistFiles ==
    StartupConfigs \cup
    {[active |-> TRUE, days |-> {}, release_time_str |-> <<>>,
      seconds_between_checks |-> 10]}

\* check_mails is at line 280 with the globals of the applied payload
PersistInit ==
    /\ file \in PersistFiles
    /\ \E payload \in PersistPayloads : cfg = new_config(load_setup(file), payload)
    /\ handle = None
    /\ orphans = 0
    /\ jobs = EmptyBag
    /\ reposts = [i \in 1..MaxMsgs |-> 0]
    /\ faults = 0
    /\ mailbox = <<>>
    /\ userLabels = {}
    /\ pollPc = "loop"
    /\ msgs = <<>>
    /\ now = [day |-> 0, tod |-> 0]
    /\ rule = [days |-> {"Monday"}, release_time_str |-> <<0>>]
    /\ target_datetime = Uncomputed
    /\ news_items = <<>>
    /\ N = 5
    /\ news_list = Unselected
    /\ top_5_articles = Unselected
    /\ run = NoRun
    /\ to_apply = NoPayload
    /\ seen = NoReader
    /\ setup_json = dumps(file)
    /\ writer = [pc |-> "open", pending |-> <<>>]
    /\ labelling = NoLabelling
    /\ GenIdle
    /\ LimitIdle
    /\ ScrapeIdle

\* line 280, open("configs/setup.json", "w"): the file is truncated; line
\* 281: json.dump hands its chunks to the buffered file object
PersistOpen ==
    /\ writer.pc = "open"
    /\ setup_json' = <<>>
    /\ writer' = [pc |-> "write", pending |-> dumps(json_dump(cfg))]
    /\ UNCHANGED <<ctlVars, fireVars, topVars, runVars, labelling, genVars, limitVars, scrapeVars>>

\* the buffer of the file object is flushed to the file, in one piece or
\* in several according to its size
PersistFlush ==
    /\ writer.pc = "write"
    /\ writer.pending # <<>>
    /\ \E n \in 1..Len(writer.pending) :
         /\ setup_json' = setup_json \o SubSeq(writer.pending, 1, n)
         /\ writer' = [writer EXCEPT
                          !.pending = SubSeq(@, n + 1, Len(@))]
    /\ UNCHANGED <<ctlVars, fireVars, topVars, runVars, labelling, genVars, limitVars, scrapeVars>>

\* the end of the with block of line 280: the file is closed
PersistClose ==
    /\ writer.pc = "write"
    /\ writer.pending = <<>>
    /\ writer' = [writer EXCEPT !.pc = "closed"]
    /\ file' = json_dump(cfg)
    /\ UNCHANGED <<cfg, handle, orphans, jobs, reposts, faults, mailbox, userLabels,
                   pollPc, msgs, fireVars, topVars, runVars, setup_json, labelling, genVars, limitVars, scrapeVars>>

\* the process is killed: what was not flushed is lost
Crash ==
    /\ writer.pc \in {"open", "write", "closed"}
    /\ writer' = [pc |-> "crashed", pending |-> <<>>]
    /\ UNCHANGED <<ctlVars, fireVars, topVars, runVars, setup_json, labelling, genVars, limitVars, scrapeVars>>

\* the next process start: check_directories finds the file (line 42) and
\* leaves it; line 77 calls load_setup at import, outside any try
Start ==
    /\ writer.pc = "crashed"
    /\ LET setup == json_load(setup_json)
       IN IF setup = JSONDecodeError
          THEN /\ writer' = [writer EXCEPT !.pc = "start_failed"]
               /\ cfg' = cfg
          ELSE /\ writer' = [writer EXCEPT !.pc = "started"]
               /\ cfg' = load_setup(setup)
    /\ UNCHANGED <<file, handle, orphans, jobs, reposts, faults, mailbox, userLabels,
                   pollPc, msgs, fireVars, topVars, runVars, setup_json, labelling, genVars, limitVars, scrapeVars>>

PersistNext == PersistOpen \/ PersistFlush \/ PersistClose \/ Crash \/ Start

PersistSpec == PersistInit /\ [][PersistNext]_vars

\* C21: whenever the process may stop, configs/setup.json holds the text
\* of the whole old config or of the whole new one, a text load_setup can
\* load at the next start; a start after a crash never fails at line 77.
C21_FileAlwaysLoadable ==
    /\ writer.pc \in {"open", "write", "closed", "crashed"} =>
          json_load(setup_json) \in {file, json_dump(cfg)}
    /\ writer.pc # "start_failed"

----------------------------------------------------------------------------
(* The job specification: one create_news_letter or create_repost_email    *)
(* thread from its candidates on: parse, the ANALYZED tagging with its     *)
(* retry loop, the analysis, the send.                                     *)

\* candidates the listing of the newsletter job returns
LabelMsgs == 2

\* lines 95 and 161
max_retries == 3

\* what one call of update_email_state can do: the modify call goes
\* through; the modify call raises HttpError, which update_email_state
\* catches to return False (gmail_handler_v2.py lines 318-325); an
\* exception leaves update_email_state (the label lookup of
\* _ensure_label_id at lines 294-304 is outside the try, and the try
\* catches HttpError only)
AttemptOutcomes == {"ok", "HttpError", "raises"}

\* lines 105 and 171: time.sleep(2 ** attempt)
backoff(attempt) == 2 ^ attempt

\* the classification responses of the run
JobResponses ==
    {[kind |-> "raises", news |-> 0], [kind |-> "garbage", news |-> 0],
     [kind |-> "object", news |-> 0], [kind |-> "object", news |-> 1]}

JobInit ==
    /\ \E c \in StartupConfigs, newsletter_email \in {"", "list@x.com"} :
         cfg = [c EXCEPT !.newsletter_email = newsletter_email]
    /\ file = cfg
    /\ handle = IF StartsTimer(cfg) THEN Fired ELSE None
    /\ orphans = 0
    /\ jobs = EmptyBag
    /\ reposts = [i \in 1..MaxMsgs |-> 0]
    /\ faults = 0
    /\ userLabels = {}
    /\ pollPc = "sleep"
    /\ msgs = <<>>
    /\ now = [day |-> 0, tod |-> 0]
    /\ rule = [days |-> {"Monday"}, release_time_str |-> <<0>>]
    /\ target_datetime = Uncomputed
    /\ news_items = <<>>
    /\ N = 5
    /\ news_list = Unselected
    /\ top_5_articles = Unselected
    /\ to_apply = NoPayload
    /\ seen = NoReader
    /\ PersistIdle
    /\ GenIdle
    /\ LimitIdle
    /\ ScrapeIdle
    /\ \E job \in {"newsletter", "repost"}, first \in JobResponses :
         /\ run = [pc |-> IF job = "newsletter" THEN "parse" ELSE "analyze",
                   job |-> job,
                   first_response |-> first,
                   second_response |-> IF job = "newsletter"
                                       THEN [kind |-> "object", news |-> 1] ELSE NoCall,
                   newsletter_email |-> cfg.newsletter_email,
                   analysis |-> Analysis(0, FALSE, FALSE),
                   send_calls |-> 0]
         /\ \E n \in (IF job = "newsletter" THEN 0..LabelMsgs ELSE {1}) :
              /\ mailbox = [i \in 1..n |->
                              [sender |-> JaneAddr, title |-> "Hello",
                               text |-> [body |-> "news"],
                               labels |-> {"INBOX"}, today |-> TRUE]]
              /\ labelling = [todo |-> [i \in 1..n |-> i],
                              attempt |-> 0, sleeps |-> <<>>,
                              emails_to_analyze |-> {}, ended |-> <<>>]

\* the retry loop is left for the message id: what it did is kept
EndLabelling(id, ok) ==
    /\ labelling' = [labelling EXCEPT
                        !.todo = Tail(@),
                        !.attempt = 0,
                        !.sleeps = <<>>,
                        !.ended = Append(@, [id |-> id, calls |-> labelling.attempt + 1,
                                             sleeps |-> labelling.sleeps, ok |-> ok])]
    /\ run' = [run EXCEPT !.pc = IF run.job = "newsletter" THEN "parse" ELSE "send"]

\* create_news_letter lines 153-159 and 173-175: the candidate is parsed
\* and appended; an exception skips the candidate
JobParse ==
    /\ run.pc = "parse"
    /\ labelling.todo # <<>>
    /\ \E okParse \in BOOLEAN :
         IF okParse
         THEN /\ labelling' = [labelling EXCEPT
                                  !.emails_to_analyze = @ \cup {Head(labelling.todo)}]
              /\ run' = [run EXCEPT !.pc = "label"]
         ELSE /\ labelling' = [labelling EXCEPT !.todo = Tail(@)]
              /\ run' = run
    /\ UNCHANGED <<ctlVars, fireVars, topVars, to_apply, seen, persistVars, genVars, limitVars, scrapeVars>>

\* one turn of `for attempt in range(max_retries)` (lines 161-171, 95-105):
\* a call that returns, with True or False, is followed by break; an
\* exception is followed by the sleep and the next turn, or by the log
\* when it was the last turn
JobLabel ==
    /\ run.pc = "label"
    /\ LET id == Head(labelling.todo)
       IN \E outcome \in AttemptOutcomes :
            /\ userLabels' = ensure_label(userLabels, "ANALYZED")
            /\ mailbox' = update_email_state(mailbox, id, "ANALYZED", outcome = "ok")
            /\ IF outcome \in {"ok", "HttpError"}
               THEN EndLabelling(id, outcome = "ok")
               ELSE IF labelling.attempt = max_retries - 1
                    THEN EndLabelling(id, FALSE)
                    ELSE /\ labelling' = [labelling EXCEPT
                                             !.attempt = @ + 1,
                                             !.sleeps = Append(@, backoff(labelling.attempt))]
                         /\ run' = run
    /\ UNCHANGED <<cfg, file, handle, orphans, jobs, reposts, faults, pollPc, msgs,
                   fireVars, topVars, to_apply, seen, persistVars, genVars, limitVars, scrapeVars>>

\* line 177 with the candidates all gone through; line 90 of the repost job
JobAnalyze ==
    /\ run.pc = "analyze" \/ (run.pc = "parse" /\ labelling.todo = <<>>)
    /\ LET a == IF run.job = "newsletter"
                THEN analyze_emails_newsletter(run.first_response, run.second_response)
                ELSE analyze_repost(run.first_response)
       IN run' = [run EXCEPT !.analysis = a,
                             !.pc = IF a.escaped THEN "done"
                                    ELSE IF run.job = "newsletter" THEN "send"
                                    ELSE "label"]
    /\ UNCHANGED <<ctlVars, fireVars, topVars, to_apply, seen, unitVars>>

JobNext == JobParse \/ JobLabel \/ JobAnalyze \/ RunSend

JobSpec == JobInit /\ [][JobNext]_vars

\* C23: the tagging of a message ends after at most 3 calls of
\* update_email_state, with sleeps of 1 s then 2 s between them; a call
\* that succeeds is the last; a tagging that did not succeed was tried 3
\* times.
C23_FailedLabellingIsRetried ==
    \A i \in 1..Len(labelling.ended) :
        LET e == labelling.ended[i]
        IN /\ e.calls <= max_retries
           /\ e.sleeps = SubSeq(<<1, 2>>, 1, e.calls - 1)
           /\ ~e.ok => e.calls = max_retries

\* C29: when the newsletter job has ended, every message it tagged
\* ANALYZED is in a digest with articles that was handed to
\* send_email_html.
C29_TaggedMeansSent ==
    (run.pc = "done" /\ run.job = "newsletter") =>
        \A i \in 1..Len(mailbox) :
            "ANALYZED" \in mailbox[i].labels =>
                /\ i \in labelling.emails_to_analyze
                /\ run.analysis.final_articles > 0
                /\ run.send_calls > 0

----------------------------------------------------------------------------
(* GeminiHandler._generate (use_gemini_v2.py lines 128-159): one call,     *)
(* request by request, for every reply of the service.                     *)

\* the largest max_retries a handler is made with
GenRetries == 2

\* delays are counted in eighths of a second, which keeps delay * 1.5 whole
Seconds(n) == 8 * n

Reply(class, code, words, retryDelay) ==
    [class |-> class, code |-> code, words |-> words, retryDelay |-> retryDelay]

Response == Reply("response", "200", {}, 0)

\* what client.models.generate_content does: it returns, or it raises a
\* ServerError or ClientError whose text holds the status code and the
\* words of the service, or it raises something else
Replies ==
    { Response,
      Reply("ServerError", "503", {"overloaded"}, 0),
      Reply("ServerError", "503", {"unavailable"}, 0),
      Reply("ServerError", "500", {"internal"}, 0),
      Reply("ClientError", "429", {"quota"}, 0),
      Reply("ClientError", "429", {"quota"}, Seconds(7)),
      Reply("ClientError", "400", {"invalid"}, 0),
      Reply("TimeoutError", "", {}, 0) }

\* line 138: the except clause
caught(e) == e.class \in {"ServerError", "ClientError"}

retryable_any_status(e) == e.code \in {"503", "500", "429"}

\* lines 139-141
retryable(e) ==
    LET overloaded == e.code = "503" /\ "overloaded" \in e.words
        quota == e.code = "429" /\ "quota" \in e.words
    IN overloaded \/ quota

exhausted_one_more(attempt, retries) == attempt = retries + 1

\* line 142: attempt == self.max_retries
exhausted(attempt, retries) == attempt = retries

\* lines 147-149: the retryDelay of a quota error, None (0) without one
suggested(e) ==
    IF e.code = "429" /\ "quota" \in e.words THEN e.retryDelay ELSE 0

\* line 157: min(delay * 1.5, self.max_retry_delay)
next_delay(delay, max_retry_delay) == Min({(delay * 3) \div 2, max_retry_delay})

GenInit ==
    /\ cfg \in StartupConfigs
    /\ file = cfg
    /\ handle = None
    /\ orphans = 0
    /\ jobs = EmptyBag
    /\ reposts = [i \in 1..MaxMsgs |-> 0]
    /\ faults = 0
    /\ mailbox = <<>>
    /\ userLabels = {}
    /\ pollPc = "sleep"
    /\ msgs = <<>>
    /\ now = [day |-> 0, tod |-> 0]
    /\ rule = [days |-> {"Monday"}, release_time_str |-> <<0>>]
    /\ target_datetime = Uncomputed
    /\ news_items = <<>>
    /\ N = 5
    /\ news_list = Unselected
    /\ top_5_articles = Unselected
    /\ run = NoRun
    /\ to_apply = NoPayload
    /\ seen = NoReader
    /\ PersistIdle
    /\ labelling = NoLabelling
    /\ LimitIdle
    /\ ScrapeIdle
    /\ \E retries \in 0..GenRetries, max_retry_delay \in {Seconds(10), Seconds(60)} :
         gen = [pc |-> "loop", max_retries |-> retries,
                max_retry_delay |-> max_retry_delay,
                attempt |-> 0, delay |-> Seconds(5),
                requests |-> 0, retried |-> <<>>, waits |-> <<>>,
                result |-> Reply("none", "", {}, 0)]

\* one turn of `for attempt in range(self.max_retries + 1)`, and line 159
\* when the range is used up
GenRequest ==
    /\ gen.pc = "loop"
    /\ IF gen.attempt > gen.max_retries
       THEN gen' = [gen EXCEPT !.pc = "raised",
                               !.result = Reply("RuntimeError", "", {}, 0)]
       ELSE \E reply \in Replies :
              IF reply = Response
              THEN gen' = [gen EXCEPT !.pc = "returned", !.requests = @ + 1,
                                      !.result = reply]
              ELSE IF \/ ~caught(reply)
                      \/ ~retryable(reply)
                      \/ exhausted(gen.attempt, gen.max_retries)
              THEN gen' = [gen EXCEPT !.pc = "raised", !.requests = @ + 1,
                                      !.result = reply]
              ELSE gen' = [gen EXCEPT
                              !.requests = @ + 1,
                              !.attempt = @ + 1,
                              !.retried = Append(@, reply),
                              !.waits = Append(@, IF suggested(reply) # 0
                                                  THEN suggested(reply) ELSE gen.delay),
                              !.delay = IF suggested(reply) # 0 THEN @
                                        ELSE next_delay(@, gen.max_retry_delay)]
    /\ UNCHANGED <<ctlVars, fireVars, topVars, runVars, persistVars, labelling,
                   limitVars, scrapeVars>>

GenNext == GenRequest

GenSpec == GenInit /\ [][GenNext]_vars

\* the errors the claim names: overload (503) and quota (429)
OverloadOrQuota(e) ==
    \/ e.class = "ServerError" /\ e.code = "503" /\ e.words = {"overloaded"}
    \/ e.class = "ClientError" /\ e.code = "429" /\ e.words = {"quota"}

\* C24: a call of _generate makes at most max_retries + 1 requests; every
\* request it followed by another had raised an overload or quota error;
\* it returns the response, or raises the error of its last request, which
\* is any other error or the overload or quota error of request
\* max_retries + 1; the loop is never left otherwise.
C24_GenerateIsBounded ==
    /\ gen.pc # "none" =>
          /\ gen.requests <= gen.max_retries + 1
          /\ \A i \in 1..Len(gen.retried) : OverloadOrQuota(gen.retried[i])
          /\ Len(gen.retried) <= gen.max_retries
    /\ gen.pc = "loop" => gen.attempt <= gen.max_retries /\ gen.requests = gen.attempt
    /\ gen.pc = "returned" => gen.result = Response
    /\ gen.pc = "raised" =>
          /\ gen.result \in Replies \ {Response}
          /\ gen.requests = Len(gen.retried) + 1
          /\ OverloadOrQuota(gen.result) => gen.requests = gen.max_retries + 1

\* C24, the case: with max_retries 2, two quota or overload errors were
\* retried and the third request raised an overload error to the caller.
C24_Witness ==
    /\ gen.pc = "raised"
    /\ gen.max_retries = 2
    /\ gen.requests = 3
    /\ gen.result = Reply("ServerError", "503", {"overloaded"}, 0)
    /\ Len(gen.waits) = 2

----------------------------------------------------------------------------
(* The two passes of analyze_emails_newsletter (flows.py lines 219-335):   *)
(* every link is scraped without images, the evaluation response gives     *)
(* the top 5, their links are scraped again with images.  Links are        *)
(* numbered as article_id_counter numbers them: link k is ARTICLE_k.       *)

\* links in the emails of one run
MaxLinks == 6

\* scrape_website returns the text of the page, or None when the WebDriver
\* and the requests fallback both failed (lines 83-111)
ScrapedText == "text"
NoneHtml == "None"

\* the links whose scrape fails in a pass: none, the first, all
FailingLinks(n) == {{}, {0} \cap (0..(n - 1)), 0..(n - 1)}

\* the "news" of the evaluation response: the articles of the first k
\* links with relevancies going up or down, with or without an article
\* whose ID is of no link, with or without ARTICLE_0 listed a second time
Evaluation(k, rising, stray, twice) ==
    [i \in 1..k |-> [ID |-> i - 1, source |-> "",
                     relevancy |-> IF rising THEN i ELSE k + 1 - i]]
    \o (IF stray THEN <<[ID |-> -1, source |-> "", relevancy |-> k + 1]>> ELSE <<>>)
    \o (IF twice /\ k > 0 THEN <<[ID |-> 0, source |-> "", relevancy |-> k + 1]>> ELSE <<>>)

ScrapeInit ==
    /\ cfg \in StartupConfigs
    /\ ~StartsTimer(cfg)
    /\ file = cfg
    /\ handle = None
    /\ orphans = 0
    /\ jobs = EmptyBag
    /\ reposts = [i \in 1..MaxMsgs |-> 0]
    /\ faults = 0
    /\ mailbox = <<>>
    /\ userLabels = {}
    /\ pollPc = "sleep"
    /\ msgs = <<>>
    /\ now = [day |-> 0, tod |-> 0]
    /\ rule = [days |-> {"Monday"}, release_time_str |-> <<0>>]
    /\ target_datetime = Uncomputed
    /\ news_items = <<>>
    /\ N = 5
    /\ news_list = Unselected
    /\ top_5_articles = Unselected
    /\ run = NoRun
    /\ to_apply = NoPayload
    /\ seen = NoReader
    /\ PersistIdle
    /\ labelling = NoLabelling
    /\ GenIdle
    /\ LimitIdle
    /\ \E n \in 0..MaxLinks, include_images \in BOOLEAN :
         \E k \in 0..n, rising, stray, twice \in BOOLEAN :
           \E failing1, failing2 \in FailingLinks(n) :
             scrape = [pc |-> "first", links |-> n, include_images |-> include_images,
                       all_articles |-> Evaluation(k, rising, stray, twice),
                       failing |-> <<failing1, failing2>>,
                       article_id_counter |-> 0,
                       article_data |-> [l \in {} |-> NoneHtml],
                       combined_content |-> <<>>,
                       top_5_articles |-> <<>>, article |-> 1,
                       top_5_combined_content |-> <<>>,
                       fetches |-> <<>>]

\* what a call of scrape_website is: the link and the download_images flag
Fetch(link, download_images) == [link |-> link, download_images |-> download_images]

\* lines 244-273: one link of the first pass
ScrapeLink ==
    /\ scrape.pc = "first"
    /\ scrape.article_id_counter < scrape.links
    /\ LET link == scrape.article_id_counter
           html == IF link \in scrape.failing[1] THEN NoneHtml ELSE ScrapedText
       IN scrape' = [scrape EXCEPT
                        !.article_id_counter = @ + 1,
                        !.fetches = Append(@, Fetch(link, FALSE)),
                        !.article_data = [l \in 0..link |->
                                             IF l = link THEN html ELSE @[l]],
                        !.combined_content =
                            Append(@, IF html # NoneHtml THEN html
                                      ELSE "[Failed to scrape this link]")]
    /\ UNCHANGED <<ctlVars, fireVars, topVars, runVars, persistVars, labelling,
                   genVars, limitVars>>

\* lines 275-290: the evaluation call and the selection of the top 5
ScrapeEvaluate ==
    /\ scrape.pc = "first"
    /\ scrape.article_id_counter = scrape.links
    /\ scrape' = [scrape EXCEPT !.pc = "second",
                                !.top_5_articles = top_5(scrape.all_articles)]
    /\ UNCHANGED <<ctlVars, fireVars, topVars, runVars, persistVars, labelling,
                   genVars, limitVars>>

\* lines 295-331: one article of the top 5
ScrapeArticle ==
    /\ scrape.pc = "second"
    /\ scrape.article <= Len(scrape.top_5_articles)
    /\ LET article_id == scrape.top_5_articles[scrape.article].ID
       IN IF article_id \in DOMAIN scrape.article_data
          THEN LET stored == scrape.article_data[article_id]
                   fallback == IF stored # NoneHtml THEN stored
                               ELSE "[Failed to scrape this link]"
                   html_with_images ==
                       IF article_id \in scrape.failing[2] THEN NoneHtml
                       ELSE "text with images"
               IN IF scrape.include_images
                  THEN scrape' = [scrape EXCEPT
                          !.article = @ + 1,
                          !.fetches = Append(@, Fetch(article_id, TRUE)),
                          !.top_5_combined_content =
                              Append(@, IF html_with_images # NoneHtml
                                        THEN html_with_images ELSE fallback)]
                  ELSE scrape' = [scrape EXCEPT
                          !.article = @ + 1,
                          !.top_5_combined_content = Append(@, fallback)]
          ELSE scrape' = [scrape EXCEPT !.article = @ + 1]
    /\ UNCHANGED <<ctlVars, fireVars, topVars, runVars, persistVars, labelling,
                   genVars, limitVars>>

\* line 335: the content of the top 5 goes to the division call
ScrapeDivide ==
    /\ scrape.pc = "second"
    /\ scrape.article > Len(scrape.top_5_articles)
    /\ scrape' = [scrape EXCEPT !.pc = "done"]
    /\ UNCHANGED <<ctlVars, fireVars, topVars, runVars, persistVars, labelling,
                   genVars, limitVars>>

ScrapeNext == ScrapeLink \/ ScrapeEvaluate \/ ScrapeArticle \/ ScrapeDivide

ScrapeSpec == ScrapeInit /\ [][ScrapeNext]_vars

\* the calls of scrape_website made with download_images=True
MediaFetches == {i \in 1..Len(scrape.fetches) : scrape.fetches[i].download_images}

\* the five articles of highest relevancy of the evaluation response
InTopFive(id) ==
    \E a \in 1..Len(scrape.all_articles) :
        /\ scrape.all_articles[a].ID = id
        /\ Cardinality({b \in 1..Len(scrape.all_articles) :
              scrape.all_articles[b].relevancy > scrape.all_articles[a].relevancy}) < 5

\* C27: the first pass scrapes every link once with download_images off;
\* the calls with download_images on are at most 5 in a run, each for the
\* link of an article of the top 5 whose ID is the id of a link; a link
\* whose scrape fails gives the placeholder (the stored text in the second
\* pass) and both passes go on to their end.
C27_MediaOnlyForTopFive ==
    scrape.pc # "none" =>
        /\ \A i \in 1..Len(scrape.fetches) :
              i <= scrape.article_id_counter =>
                  scrape.fetches[i] = Fetch(i - 1, FALSE)
        /\ \A i \in MediaFetches :
              /\ i > scrape.links
              /\ scrape.fetches[i].link \in 0..(scrape.links - 1)
              /\ InTopFive(scrape.fetches[i].link)
        /\ Cardinality(MediaFetches) <= 5
        /\ scrape.pc \in {"second", "done"} =>
              /\ scrape.article_id_counter = scrape.links
              /\ Len(scrape.combined_content) = scrape.links
              /\ \A l \in 0..(scrape.links - 1) :
                    scrape.combined_content[l + 1] =
                        IF l \in scrape.failing[1] THEN "[Failed to scrape this link]"
                        ELSE ScrapedText
        /\ scrape.pc = "done" =>
              /\ Len(scrape.top_5_combined_content) =
                    Cardinality({j \in 1..Len(scrape.top_5_articles) :
                        scrape.top_5_articles[j].ID \in 0..(scrape.links - 1)})
              /\ \A j \in 1..Len(scrape.top_5_combined_content) :
                    scrape.top_5_combined_content[j] \in
                        {"text with images", ScrapedText, "[Failed to scrape this link]"}

\* C27, the case: six links, six articles in the response; the first link
\* failed in both passes, the others in the second; five calls were made
\* with images, the content of the top 5 holds stored texts.
C27_Witness ==
    /\ scrape.pc = "done"
    /\ scrape.links = 6
    /\ Len(scrape.all_articles) = 6
    /\ scrape.failing = <<{0}, 0..5>>
    /\ Cardinality(MediaFetches) = 5
    /\ Len(scrape.top_5_combined_content) = 5
    /\ \E j \in 1..5 : scrape.top_5_combined_content[j] = ScrapedText

----------------------------------------------------------------------------
(* GeminiHandler._check_rate_limit (use_gemini_v2.py lines 103-122) run by *)
(* the threads that share the handler of server_v2.py line 80: the         *)
(* newsletter job and a repost job.  Time is counted in whole units.       *)

\* the handler's rate_limit and time_window, scaled down from 30 and 60
rate_limit == 2
time_window == 2

\* the last reading of the clock
MaxClock == 3

\* calls of _generate a thread makes
MaxCalls == 2

LimitThreads == {"newsletter", "repost"}

\* lines 108-109 and 118-119: timestamps that left the window are dropped
RECURSIVE drop_expired(_, _)
drop_expired(timestamps, t) ==
    IF timestamps # <<>> /\ t - Head(timestamps) >= time_window
    THEN drop_expired(Tail(timestamps), t)
    ELSE timestamps

\* deque(maxlen=rate_limit).append (lines 61, 122): a full deque drops its
\* leftmost element
deque_append(timestamps, t) ==
    IF Len(timestamps) >= rate_limit
    THEN Append(Tail(timestamps), t)
    ELSE Append(timestamps, t)

LimitInit ==
    /\ cfg \in StartupConfigs
    /\ ~StartsTimer(cfg)
    /\ file = cfg
    /\ handle = None
    /\ orphans = 0
    /\ jobs = EmptyBag
    /\ reposts = [i \in 1..MaxMsgs |-> 0]
    /\ faults = 0
    /\ mailbox = <<>>
    /\ userLabels = {}
    /\ pollPc = "sleep"
    /\ msgs = <<>>
    /\ now = [day |-> 0, tod |-> 0]
    /\ rule = [days |-> {"Monday"}, release_time_str |-> <<0>>]
    /\ target_datetime = Uncomputed
    /\ news_items = <<>>
    /\ N = 5
    /\ news_list = Unselected
    /\ top_5_articles = Unselected
    /\ run = NoRun
    /\ to_apply = NoPayload
    /\ seen = NoReader
    /\ PersistIdle
    /\ labelling = NoLabelling
    /\ GenIdle
    /\ ScrapeIdle
    /\ requests_timestamps = <<>>
    /\ limiter = [clock |-> 0,
                  pc |-> [t \in LimitThreads |-> "idle"],
                  now |-> [t \in LimitThreads |-> 0],
                  wake |-> [t \in LimitThreads |-> 0],
                  calls |-> [t \in LimitThreads |-> 0],
                  issued |-> <<>>]

\* time passes
Tick ==
    /\ limiter.clock < MaxClock
    /\ limiter' = [limiter EXCEPT !.clock = @ + 1]
    /\ UNCHANGED <<ctlVars, fireVars, topVars, runVars, persistVars, labelling,
                   genVars, scrapeVars, requests_timestamps>>

\* lines 105-109: now = time.time(), then the first clean-up
LimitEnter(t) ==
    /\ limiter.pc[t] = "idle"
    /\ limiter.calls[t] < MaxCalls
    /\ requests_timestamps' = drop_expired(requests_timestamps, limiter.clock)
    /\ limiter' = [limiter EXCEPT !.pc[t] = "check",
                                  !.now[t] = limiter.clock,
                                  !.calls[t] = @ + 1]
    /\ UNCHANGED <<ctlVars, fireVars, topVars, runVars, persistVars, labelling,
                   genVars, scrapeVars>>

\* lines 112-116: with a full window the thread sleeps until the head
\* leaves it
LimitCheck(t) ==
    /\ limiter.pc[t] = "check"
    /\ IF Len(requests_timestamps) >= rate_limit
       THEN LET wait_for == time_window - (limiter.now[t] - Head(requests_timestamps))
            IN limiter' = [limiter EXCEPT
                              !.pc[t] = IF wait_for > 0 THEN "sleep" ELSE "clean",
                              !.wake[t] = limiter.clock + wait_for]
       ELSE limiter' = [limiter EXCEPT !.pc[t] = "append"]
    /\ UNCHANGED <<ctlVars, fireVars, topVars, runVars, persistVars, labelling,
                   genVars, scrapeVars, requests_timestamps>>

\* line 116: sleep(wait_for) returns
LimitWake(t) ==
    /\ limiter.pc[t] = "sleep"
    /\ limiter.clock >= limiter.wake[t]
    /\ limiter' = [limiter EXCEPT !.pc[t] = "clean"]
    /\ UNCHANGED <<ctlVars, fireVars, topVars, runVars, persistVars, labelling,
                   genVars, scrapeVars, requests_timestamps>>

\* lines 118-119: the clean-up after the wait
LimitClean(t) ==
    /\ limiter.pc[t] = "clean"
    /\ requests_timestamps' = drop_expired(requests_timestamps, limiter.clock)
    /\ limiter' = [limiter EXCEPT !.pc[t] = "append"]
    /\ UNCHANGED <<ctlVars, fireVars, topVars, runVars, persistVars, labelling,
                   genVars, scrapeVars>>

\* line 122, and line 134 of _generate: the timestamp is recorded and the
\* request is issued
LimitAppend(t) ==
    /\ limiter.pc[t] = "append"
    /\ requests_timestamps' = deque_append(requests_timestamps, limiter.clock)
    /\ limiter' = [limiter EXCEPT !.pc[t] = "idle",
                                  !.issued = Append(@, limiter.clock)]
    /\ UNCHANGED <<ctlVars, fireVars, topVars, runVars, persistVars, labelling,
                   genVars, scrapeVars>>

LimitNext ==
    \/ Tick
    \/ \E t \in LimitThreads :
         LimitEnter(t) \/ LimitCheck(t) \/ LimitWake(t) \/ LimitClean(t) \/ LimitAppend(t)

LimitSpec == LimitInit /\ [][LimitNext]_vars

\* the requests issued in the window that starts at time from
IssuedIn(from) ==
    Cardinality({i \in 1..Len(limiter.issued) :
        from <= limiter.issued[i] /\ limiter.issued[i] < from + time_window})

\* C30: in every window of length time_window, the threads that share the
\* handler have issued at most rate_limit requests.
C30_WindowNeverOverfull ==
    \A from \in 0..MaxClock : IssuedIn(from) <= rate_limit

----------------------------------------------------------------------------
(* Properties of a run with no recipient.                                  *)

\* C22: with newsletter_email empty, the newsletter job and the repost job
\* make no call of send_email_html and end by returning; the waiter of the
\* newsletter job then arms the timer as after any run, and the poll
\* thread has a step to take at every point of the run.
C22_NoRecipientNoSend ==
    /\ run.newsletter_email = "" => run.send_calls = 0
    /\ (run.pc = "joined" /\ StartsTimer(cfg)) => handle.state = "pending"
    /\ ENABLED (PollList \/ PollSleep)

\* C22, the case: a newsletter run with articles to send and no recipient
\* has ended without a send, and the timer is armed again.
C22_Witness ==
    /\ run.pc = "joined"
    /\ run.newsletter_email = ""
    /\ run.analysis.final_articles > 0
    /\ run.send_calls = 0
    /\ handle.state = "pending"

----------------------------------------------------------------------------
(* Properties of send_now.                                                 *)

\* the create_news_letter threads that send_now started and that have not
\* ended
SendNowRuns ==
    Copies({s \in JobStates : s.phase \in {"collect", "analyze"} /\ s.origin = "send_now"},
           jobs)

\* C25: applying a config message with send_now true cancels the pending
\* timer and starts one digest run; from there until that run has ended
\* no timer is armed; applying a config message without send_now starts no
\* run.
C25_SendNowRunsAlone ==
    [][/\ (pollPc = "cancel_send" /\ pollPc' = "send") => handle'.state # "pending"
       /\ (pollPc = "send" /\ pollPc' = "loop") => SendNowRuns' = SendNowRuns + 1
       /\ (SendNowRuns > 0 /\ SendNowRuns' > 0) => PendingTimers' <= PendingTimers
       /\ (pollPc \in {"cancel_rearm", "rearm"} /\ pollPc' # pollPc) => jobs' = jobs]_vars

----------------------------------------------------------------------------
(* Properties of the poll loop over its cycles.                            *)

\* C26: the poll thread never ends: whatever a cycle met (a listing that
\* failed, an exception in check_mails), the thread sleeps and lists again,
\* also while repost threads it started are running.
C26_PollLoopNeverEnds ==
    /\ pollPc # "dead"
    /\ pollPc = "sleep" => ENABLED PollList

\* the message is from an allowed sender and no step of its iteration raises
Processable(i) == whitelisted(mailbox[i]) /\ ~raises(mailbox[i], TRUE)

\* check_mails is through with the message: it is tagged or archived
Processed(i) == "ANALYZED" \in mailbox[i].labels \/ "INBOX" \notin mailbox[i].labels

\* C28: a message in the inbox that is from an allowed sender and can be
\* processed is processed in the end (config applied or repost started,
\* then tagged or archived), whatever the messages listed before it.
C28_NoStarvation ==
    \A i \in 1..LoopMsgs : Processable(i) ~> Processed(i)

====
